---- MODULE Spec2Model ----
(***************************************************************************)
(* Model of the audio generation queue of reelpod-studio                   *)
(* (src/backend/services/audio_service.py): the job store, the FIFO of     *)
(* pending ids, the background worker thread, the worker lifecycle         *)
(* (ensure_queue_worker_running / stop_queue_worker), the test reset, the *)
(* synchronous facade generate_audio_for_request, the asynchronous facades *)
(* (create, status, audio) and the external client the worker calls        *)
(* (src/backend/repositories/acestep_repository.py).                       *)
(*                                                                         *)
(* Every block of code that runs under `with queue_condition:` is one      *)
(* atomic action; the worker's block ends in a step of its own, so that    *)
(* the holder of the lock is part of the state.  Code that runs outside    *)
(* the lock is split at each access to shared state.  Condition waits are  *)
(* modelled by the guard of the                                            *)
(* action that follows the wait (the predicate is re-evaluated under the   *)
(* lock after every wake), time by nondeterminism.                         *)
(***************************************************************************)
EXTENDS Naturals, Sequences, FiniteSets

\* ------------------------------------------------------------------ bounds

\* Number of jobs ever enqueued in one behaviour (ids are never reused:
\* uuid4 in the code, a counter here).
MaxJobs == 3

\* Number of worker threads ever started in one behaviour.
MaxWorkers == 2

JobIds == 1..MaxJobs
Workers == 1..MaxWorkers

\* queue_worker_thread = None, next_item_id = None
NoThread == 0
NoJob == 0

\* Python's None in the two optional fields of an item
NoWav == <<>>
NoError == "None"

\* no task_id yet; no exception raised
NoTask == <<>>
NoExc == [type |-> "None", msg |-> "None"]

\* A JSON value where a task_id is looked up: the key is missing or null,
\* the empty string, a value that is not a string, or a non-empty string.
JsonAbsent == [kind |-> "absent", val |-> NoTask]
TaskIdValues(tasks) ==
    {JsonAbsent, [kind |-> "empty", val |-> NoTask], [kind |-> "number", val |-> NoTask]}
        \cup {[kind |-> "string", val |-> t] : t \in tasks}

\* The value under the `data` key of a response: missing or null, {}, [],
\* a non-empty list, or a non-empty dict with the task_id it carries.
DataValues(tasks) ==
    {[kind |-> k, task_id |-> JsonAbsent] : k \in {"absent", "empty_dict", "empty_list", "list"}}
        \cup {[kind |-> "dict", task_id |-> v] : v \in TaskIdValues(tasks)}

\* The JSON object post_json returns for a submit: its top-level task_id
\* and its `data`.
SubmitResponses(tasks) ==
    {[task_id |-> v, data |-> d] : v \in TaskIdValues(tasks), d \in DataValues(tasks)}

\* The file paths a result can name, and the longest result list.
Paths == {"a.wav", "b.wav"}
MaxResultLen == 2

\* no file_path yet
NoPath == "None"

\* The value under the `file` key of a result element: missing or null, a
\* value that is not a string, the empty string, or a non-empty string.
NoFile == [kind |-> "absent", val |-> NoPath]
FileValues ==
    {NoFile, [kind |-> "number", val |-> NoPath], [kind |-> "empty", val |-> NoPath]}
        \cup {[kind |-> "string", val |-> p] : p \in Paths}

\* An element of a result list: a value that is not an object, or an
\* object with what it has under `file`.
ResultElements ==
    {[kind |-> "nondict", file |-> NoFile]}
        \cup {[kind |-> "dict", file |-> f] : f \in FileValues}

SeqsUpTo(S, n) == UNION {[1..k -> S] : k \in 0..n}

\* What json.loads makes of the result string: a list, an object, or any
\* other JSON value.
ParsedResults ==
    {[kind |-> "list", items |-> l, file |-> NoFile] :
         l \in SeqsUpTo(ResultElements, MaxResultLen)}
        \cup {[kind |-> "dict", items |-> <<>>, file |-> f] : f \in FileValues}
        \cup {[kind |-> "scalar", items |-> <<>>, file |-> NoFile]}

\* The value under the `result` key of a task record: missing or null, a
\* value that is not a string, a string that is not JSON, a JSON string
\* nested deeper than json.loads can follow, a JSON string that holds an
\* integer of more digits than int() converts (4300), or a JSON string.
NoParsed == [kind |-> "none", items |-> <<>>, file |-> NoFile]
NoResult == [kind |-> "absent", parsed |-> NoParsed]
ResultValues ==
    {NoResult, [kind |-> "number", parsed |-> NoParsed],
     [kind |-> "malformed", parsed |-> NoParsed],
     [kind |-> "deep", parsed |-> NoParsed],
     [kind |-> "bigint", parsed |-> NoParsed]}
        \cup {[kind |-> "string", parsed |-> q] : q \in ParsedResults}

\* The value under `status`: missing or null, or an integer.
NoStatus == [kind |-> "absent", val |-> 0]
StatusValues == {NoStatus} \cup {[kind |-> "int", val |-> n] : n \in 0..3}

\* A task record: the object poll_until_complete looks at.  The first
\* element of the `data` list can also be a value that is not an object.
TaskRecords(results) ==
    {[kind |-> "nondict", status |-> NoStatus, result |-> NoResult]}
        \cup {[kind |-> "dict", status |-> st, result |-> NoResult] :
                  st \in StatusValues}
        \cup {[kind |-> "dict", status |-> [kind |-> "int", val |-> 1], result |-> r] :
                  r \in results}
NoRecord == [kind |-> "dict", status |-> NoStatus, result |-> NoResult]

\* The JSON object post_json returns for a poll: its top-level status and
\* its `data`: missing or null, [], {}, a value that is neither list nor
\* object, a list (with its first element) or an object.
PollResponseValues(results) ==
    {[status |-> st, data |-> [kind |-> k, item |-> NoRecord]] :
         st \in StatusValues, k \in {"absent", "empty_list", "empty_dict", "other"}}
        \cup {[status |-> st, data |-> [kind |-> "list", item |-> i]] :
                  st \in StatusValues, i \in TaskRecords(results)}
        \cup {[status |-> st, data |-> [kind |-> "dict", item |-> i]] :
                  st \in StatusValues,
                  i \in {t \in TaskRecords(results) : t.kind = "dict"}}

\* no response fixed beforehand
NoPollResponse == [status |-> NoStatus, data |-> [kind |-> "none", item |-> NoRecord]]

\* no response fixed beforehand
NoResponse == [task_id |-> JsonAbsent, data |-> [kind |-> "none", task_id |-> JsonAbsent]]

\* ------------------------------------------------------------------- state

VARIABLES
    queue_items,         \* dict id -> GenerationQueueItem
    queue_order,         \* deque of pending ids
    queue_stop_event,    \* threading.Event: is_set()
    queue_worker_thread, \* module global: handle of the worker thread or None
    next_id,             \* number of ids handed out so far (uuid4 never repeats)
    wpc,                 \* position of every worker thread ever started
    wcur,                \* next_item_id / item held by each worker thread
    spc,                 \* position of the thread inside stop_queue_worker
    starget,             \* the thread stop_queue_worker is joining
    sgen,                \* history: the jobs that were generating when the stop in progress was called
    gpc,                 \* position of the thread inside generate_audio_for_request
    gid,                 \* id of the item that thread enqueued
    gexpired,            \* its deadline has passed (time.monotonic() >= deadline)
    gout,                \* its outcome
    calls,               \* history: job ids in the order the external client was invoked
    cpc,                 \* position of the thread inside create_generation_request
    cid,                 \* id of the item that thread enqueued
    cout,                \* the dict it returns
    cstatus,             \* item.status of the object that thread holds, once the store has dropped it
    epc,                 \* position of the thread inside the body of ensure_queue_worker_running
    apc,                 \* position of a caller of ensure_queue_worker_running that is not a facade
    xpc,                 \* position of each worker thread inside generate_audio_bytes_for_prompt
    xtask,               \* task_id: what submit_task returned to that thread
    xlog,                \* history: the requests and sleeps of that thread's latest external call
    xexc,                \* the exception that thread's latest external call raised
    cause,               \* history: why the external call made for each job raised
    lock_owner,          \* the thread that holds queue_condition, or None
    sresp,               \* the response to the submit, when the remote has fixed it beforehand
    presp,               \* the response to every poll, when the remote has fixed it beforehand
    xpath,               \* file_path: what extract_file_path returned to each worker thread
    xrecord,             \* completed_task: what poll_until_complete returned to that thread
    upc,                 \* position of a caller of wait_for_terminal_status without a timeout
    uid,                 \* the id that caller waits for
    uout                 \* what the wait returned to it

vars == <<queue_items, queue_order, queue_stop_event, queue_worker_thread, next_id,
          wpc, wcur, spc, starget, sgen, gpc, gid, gexpired, gout, calls,
          cpc, cid, cout, cstatus, epc, apc, xpc, xtask, xlog, xexc, cause, lock_owner, sresp,
          presp, xpath, xrecord, upc, uid, uout>>

storeVars == <<queue_items, queue_order, next_id>>
lifeVars == <<queue_stop_event, queue_worker_thread>>
stopVars == <<spc, starget, sgen>>
genVars == <<gpc, gid, gexpired, gout>>
createVars == <<cpc, cid, cout, cstatus>>
ensureVars == <<epc, apc>>
clientVars == <<xpc, xtask, xlog, xexc, cause>>
submitVars == <<sresp>>
pollVars == <<presp, xpath, xrecord>>
waitVars == <<upc, uid, uout>>

\* ------------------------------------------------------------ data model

\* models/queue.py: the fields of GenerationQueueItem the queue reads and writes
GenerationQueueItem(st, wav, err) ==
    [status |-> st, wav_bytes |-> wav, error_message |-> err]

\* The bytes the external client returns for the call made for job j.  The
\* content is opaque to the queue; the tag records which call produced it.
WavOf(j) == <<"wav", j>>

GENERATION_FAILED_MESSAGE == "Audio generation failed"

\* The exceptions the external client can raise: those the worker names in
\* its first except clause, and one that only the catch-all clause handles.
RecognizedErrors ==
    {"RuntimeError", "URLError", "HTTPError", "JSONDecodeError", "TimeoutError"}
ClientErrors == RecognizedErrors \cup {"Exception"}

Stored(j) == j \in DOMAIN queue_items

IsTerminal(st) == st \in {"completed", "failed"}

\* threading.Thread.is_alive()
IsAlive(w) == wpc[w] \in {"loop", "pop", "marked", "invoke", "call", "else", "raised"}

LiveWorkers == {w \in Workers : IsAlive(w)}

\* ----------------------------------------------------------------- Init

InitService ==
    /\ queue_items = [j \in {} |-> GenerationQueueItem("queued", NoWav, NoError)]
    /\ queue_order = <<>>
    /\ queue_stop_event = FALSE
    /\ queue_worker_thread = NoThread
    /\ next_id = 0
    /\ wpc = [w \in Workers |-> "unstarted"]
    /\ wcur = [w \in Workers |-> NoJob]
    /\ spc = "idle"
    /\ starget = NoThread
    /\ sgen = {}
    /\ gpc = "idle"
    /\ gid = NoJob
    /\ gexpired = FALSE
    /\ gout = [kind |-> "none", wav |-> NoWav]
    /\ calls = <<>>
    /\ cpc = "idle"
    /\ cid = NoJob
    /\ cout = [id |-> NoJob, status |-> "None"]
    /\ cstatus = "None"
    /\ epc = "idle"
    /\ apc = "idle"
    /\ xpc = [w \in Workers |-> "none"]
    /\ xtask = [w \in Workers |-> NoTask]
    /\ xlog = [w \in Workers |-> <<>>]
    /\ xexc = [w \in Workers |-> NoExc]
    /\ cause = [j \in JobIds |-> "none"]
    /\ lock_owner = NoThread
    /\ xpath = [w \in Workers |-> NoPath]
    /\ xrecord = [w \in Workers |-> NoRecord]
    /\ upc = "idle"
    /\ uid = NoJob
    /\ uout = "None"

Init ==
    /\ InitService
    /\ sresp = NoResponse
    /\ presp = NoPollResponse

\* --------------------------------------------------------------- the lock

\* queue_condition = threading.Condition(): its lock is re-entrant.  Thread
\* t (a worker, or NoThread for a thread that is not a worker) can enter a
\* `with queue_condition:` block when no other thread holds the lock.  A
\* block that is one action acquires and releases within the step; the
\* worker's block of lines 106-119 is held from WorkerEnter to
\* WorkerRelease, and the block of ensure_queue_worker_running from
\* EnsureBegin to the step in which the call ends.
CanAcquire(t) == lock_owner \in {NoThread, t}

\* queue_condition.notify_all(), called by a thread that holds the lock: a
\* thread asleep in queue_condition.wait() is woken; it takes the lock
\* again and inspects its item once more.  (The waits with a timeout wake
\* by themselves and are modelled by the guards of their actions.)
NotifyAll == upc' = IF upc = "asleep" THEN "woken" ELSE upc

\* ------------------------------------------------------------ the store

\* An enqueue that stores the item and leaves the queue alone.
EnqueueItem_StoreOnly ==
    /\ CanAcquire(NoThread)
    /\ next_id < MaxJobs
    /\ next_id' = next_id + 1
    /\ queue_items' = [j \in DOMAIN queue_items \cup {next_id + 1} |->
                         IF j = next_id + 1
                         THEN GenerationQueueItem("queued", NoWav, NoError)
                         ELSE queue_items[j]]
    /\ UNCHANGED queue_order
    /\ NotifyAll

\* enqueue_generation_request, the block under the lock: store the item and
\* append its id.  The id is fresh.
EnqueueItem ==
    /\ CanAcquire(NoThread)
    /\ next_id < MaxJobs
    /\ next_id' = next_id + 1
    /\ queue_items' = [j \in DOMAIN queue_items \cup {next_id + 1} |->
                         IF j = next_id + 1
                         THEN GenerationQueueItem("queued", NoWav, NoError)
                         ELSE queue_items[j]]
    /\ queue_order' = Append(queue_order, next_id + 1)
    /\ NotifyAll

\* A caller of enqueue_generation_request that is not one of the facades
\* (the tests enqueue directly).
Enqueue ==
    /\ EnqueueItem
    /\ UNCHANGED <<lifeVars, wpc, wcur, stopVars, genVars, calls, createVars, clientVars, lock_owner, ensureVars, submitVars, pollVars, uid, uout>>

\* A reset that clears the store and leaves the queue of ids alone.
ResetQueue_KeepsQueue ==
    /\ CanAcquire(NoThread)
    /\ queue_items' = [j \in {} |-> GenerationQueueItem("queued", NoWav, NoError)]
    /\ cstatus' = IF Stored(cid) THEN queue_items[cid].status ELSE cstatus
    /\ NotifyAll
    /\ UNCHANGED <<queue_order, next_id, lifeVars, wpc, wcur, stopVars, genVars, calls, cpc, cid, cout, clientVars, lock_owner, ensureVars, submitVars, pollVars, uid, uout>>

\* reset_generation_queue_for_tests.  An item object that a thread inside
\* create_generation_request still holds leaves the store with the status
\* it has; nothing writes to it afterwards.
ResetQueue ==
    /\ CanAcquire(NoThread)
    /\ queue_items' = [j \in {} |-> GenerationQueueItem("queued", NoWav, NoError)]
    /\ queue_order' = <<>>
    /\ cstatus' = IF Stored(cid) THEN queue_items[cid].status ELSE cstatus
    /\ NotifyAll
    /\ UNCHANGED <<next_id, lifeVars, wpc, wcur, stopVars, genVars, calls, cpc, cid, cout, clientVars, lock_owner, ensureVars, submitVars, pollVars, uid, uout>>

\* ------------------------------------------------------ worker lifecycle

\* The thread object the next threading.Thread(...) call creates.
NewThread == CHOOSE w \in Workers :
    /\ wpc[w] = "unstarted"
    /\ \A v \in Workers : wpc[v] = "unstarted" => w <= v

\* The thread inside the body of ensure_queue_worker_running, as the owner
\* of queue_condition.  The body runs under the lock from line 157 to line
\* 163, so one thread at a time is inside it; stop_queue_worker, which
\* reads and writes the flag and the handle without the lock, and a worker
\* that tests the flag at line 104 run between its lines.
EnsureThread == MaxWorkers + 1

\* An ensure without the test of line 159: it starts a thread whenever it
\* is called.
EnsureBegin_AlwaysStarts ==
    /\ CanAcquire(NoThread)
    /\ epc = "idle"
    /\ \E w \in Workers : wpc[w] = "unstarted"
    /\ lock_owner' = EnsureThread
    /\ epc' = "clear"

\* ensure_queue_worker_running, lines 157-159: the thread takes the lock
\* and evaluates `queue_worker_thread is not None`.  (A call is given a
\* thread object to create should it need one.)
EnsureBegin ==
    /\ CanAcquire(NoThread)
    /\ epc = "idle"
    /\ \E w \in Workers : wpc[w] = "unstarted"
    /\ lock_owner' = EnsureThread
    /\ epc' = IF queue_worker_thread = NoThread THEN "clear" ELSE "alive"

\* ensure_queue_worker_running leaves its `with` block, by a return or with
\* the AttributeError raised on a handle that is None: the lock is released
\* and the caller goes on.  An exception ends the facade that made the call.
EnsureEnds(raised) ==
    /\ lock_owner' = NoThread
    /\ epc' = "idle"
    /\ apc' = IF apc = "ensure" THEN (IF raised THEN "raised" ELSE "returned") ELSE apc
    /\ gpc' = IF gpc = "ensure" THEN (IF raised THEN "done" ELSE "enqueue") ELSE gpc
    /\ gout' = IF gpc = "ensure" /\ raised
               THEN [kind |-> "AttributeError", wav |-> NoWav] ELSE gout
    /\ cpc' = IF cpc = "ensure" THEN (IF raised THEN "done" ELSE "enqueue") ELSE cpc
    /\ cout' = IF cpc = "ensure" /\ raised
               THEN [id |-> NoJob, status |-> "AttributeError"] ELSE cout
    /\ UNCHANGED <<gid, gexpired, cid, cstatus>>

\* ensure_queue_worker_running, line 159, second operand:
\* `queue_worker_thread.is_alive()` reads the global again.  It is None when
\* stop_queue_worker has run its line 173 since the first operand was
\* evaluated.
EnsureTestAlive ==
    /\ epc = "alive"
    /\ IF queue_worker_thread = NoThread
       THEN EnsureEnds(TRUE)
       ELSE IF IsAlive(queue_worker_thread)
            THEN EnsureEnds(FALSE)
            ELSE /\ epc' = "clear"
                 /\ UNCHANGED <<apc, genVars, createVars, lock_owner>>
    /\ UNCHANGED <<storeVars, lifeVars, wpc, wcur, stopVars, calls, clientVars, submitVars, pollVars, waitVars>>

\* ensure_queue_worker_running, line 161: queue_stop_event.clear()
EnsureClearFlag ==
    /\ epc = "clear"
    /\ queue_stop_event' = FALSE
    /\ epc' = "create"
    /\ UNCHANGED <<storeVars, queue_worker_thread, wpc, wcur, stopVars, genVars, calls, createVars, clientVars, lock_owner, apc, submitVars, pollVars, waitVars>>

\* ensure_queue_worker_running, line 162: a Thread object is created and
\* stored in the global; it is not started yet.
EnsureCreate ==
    /\ epc = "create"
    /\ queue_worker_thread' = NewThread
    /\ wpc' = [wpc EXCEPT ![NewThread] = "created"]
    /\ epc' = "start"
    /\ UNCHANGED <<storeVars, queue_stop_event, wcur, stopVars, genVars, calls, createVars, clientVars, lock_owner, apc, submitVars, pollVars, waitVars>>

\* ensure_queue_worker_running, line 163: `queue_worker_thread.start()`
\* reads the global once more.  When stop_queue_worker has stored None in
\* it since line 162, the call raises AttributeError and the Thread object,
\* never started, is dropped.
EnsureStart ==
    /\ epc = "start"
    /\ IF queue_worker_thread = NoThread
       THEN /\ wpc' = [w \in Workers |-> IF wpc[w] = "created" THEN "unstarted" ELSE wpc[w]]
            /\ EnsureEnds(TRUE)
       ELSE /\ wpc' = [wpc EXCEPT ![queue_worker_thread] = "loop"]
            /\ EnsureEnds(FALSE)
    /\ UNCHANGED <<storeVars, lifeVars, wcur, stopVars, calls, clientVars, submitVars, pollVars, waitVars>>

\* The body of ensure_queue_worker_running after the lock is taken.
EnsureWorker ==
    \/ EnsureTestAlive
    \/ EnsureClearFlag
    \/ EnsureCreate
    \/ EnsureStart

\* A call of ensure_queue_worker_running (startup, a test), from any
\* thread and at any moment, also while stop_queue_worker is between two of
\* its lines.
EnsureRunning ==
    /\ apc = "idle"
    /\ EnsureBegin
    /\ apc' = "ensure"
    /\ UNCHANGED <<storeVars, lifeVars, wpc, wcur, stopVars, genVars, calls, createVars, clientVars, submitVars, pollVars, waitVars>>

\* That call has returned or raised; the thread is free for the next call.
EnsureFinish ==
    /\ apc \in {"returned", "raised"}
    /\ apc' = "idle"
    /\ UNCHANGED <<storeVars, lifeVars, wpc, wcur, stopVars, genVars, calls, createVars, clientVars, lock_owner, epc, submitVars, pollVars, waitVars>>

\* stop_queue_worker, line 168: queue_stop_event.set(), outside the lock.
StopSet ==
    /\ spc = "idle"
    /\ queue_stop_event' = TRUE
    /\ spc' = "notify"
    /\ sgen' = {j \in DOMAIN queue_items : queue_items[j].status = "generating"}
    /\ UNCHANGED <<storeVars, queue_worker_thread, wpc, wcur, starget, genVars, calls, createVars, clientVars, lock_owner, ensureVars, submitVars, pollVars, waitVars>>

\* stop_queue_worker, lines 169-170: notify_all under the lock, which is
\* released at the end of the block.
StopNotify ==
    /\ CanAcquire(NoThread)
    /\ spc = "notify"
    /\ spc' = "test"
    /\ NotifyAll
    /\ UNCHANGED <<storeVars, lifeVars, wpc, wcur, starget, sgen, genVars, calls, createVars, clientVars, lock_owner, ensureVars, submitVars, pollVars, uid, uout>>

\* stop_queue_worker, line 171: the test of the global handle, without the
\* lock.
StopTestHandle ==
    /\ spc = "test"
    /\ spc' = IF queue_worker_thread = NoThread THEN "clear" ELSE "join"
    /\ UNCHANGED <<storeVars, lifeVars, wpc, wcur, starget, sgen, genVars, calls, createVars, clientVars, lock_owner, ensureVars, submitVars, pollVars, waitVars>>

\* stop_queue_worker, line 172: the global handle is read again, without
\* the lock, and the thread it names at that moment is joined.  (Only line
\* 173 of this same call stores None, so the handle is still a thread.)
\* join on a thread that line 163 has not started yet raises RuntimeError:
\* stop_queue_worker ends with it and line 173 does not run.
StopBeginJoin ==
    /\ spc = "join"
    /\ IF wpc[queue_worker_thread] = "created"
       THEN spc' = "raised" /\ UNCHANGED starget
       ELSE spc' = "joining" /\ starget' = queue_worker_thread
    /\ UNCHANGED <<storeVars, lifeVars, wpc, wcur, sgen, genVars, calls, createVars, clientVars, lock_owner, ensureVars, submitVars, pollVars, waitVars>>

\* join(timeout=1.0) returns because the thread has finished.
StopJoinReturns ==
    /\ spc = "joining"
    /\ ~IsAlive(starget)
    /\ spc' = "clear"
    /\ UNCHANGED <<storeVars, lifeVars, wpc, wcur, starget, sgen, genVars, calls, createVars, clientVars, lock_owner, ensureVars, submitVars, pollVars, waitVars>>

\* join(timeout=1.0) returns because the second has passed and the thread
\* is still alive, whatever it is doing: inside an external call, which
\* takes minutes, or waiting for work with the stop flag cleared again.
StopJoinTimesOut ==
    /\ spc = "joining"
    /\ IsAlive(starget)
    /\ spc' = "clear"
    /\ UNCHANGED <<storeVars, lifeVars, wpc, wcur, starget, sgen, genVars, calls, createVars, clientVars, lock_owner, ensureVars, submitVars, pollVars, waitVars>>

\* stop_queue_worker has ended with the RuntimeError of line 172; the
\* thread is free for the next call.
StopRaised ==
    /\ spc = "raised"
    /\ spc' = "idle"
    /\ sgen' = {}
    /\ UNCHANGED <<storeVars, lifeVars, wpc, wcur, starget, genVars, calls, createVars, clientVars, lock_owner, ensureVars, submitVars, pollVars, waitVars>>

\* stop_queue_worker, line 173: queue_worker_thread = None
StopClear ==
    /\ spc = "clear"
    /\ queue_worker_thread' = NoThread
    /\ spc' = "idle"
    /\ starget' = NoThread
    /\ sgen' = {}
    /\ UNCHANGED <<storeVars, queue_stop_event, wpc, wcur, genVars, calls, createVars, clientVars, lock_owner, ensureVars, submitVars, pollVars, waitVars>>

\* ------------------------------------------------------------ the worker

\* _queue_worker, lines 104 and 110: the thread sees the stop flag, at the
\* top of the loop or after its wait, and returns.
WorkerExit(w) ==
    /\ wpc[w] = "loop"
    /\ queue_stop_event
    /\ wpc' = [wpc EXCEPT ![w] = "dead"]
    /\ UNCHANGED <<storeVars, lifeVars, wcur, stopVars, genVars, calls, createVars, clientVars, lock_owner, ensureVars, submitVars, pollVars, waitVars>>

\* A worker without the test of line 110: it goes on to the pop whenever
\* its wait loop ends, whether or not the stop flag is set.
WorkerEnter_IgnoresStop(w) ==
    /\ CanAcquire(w)
    /\ wpc[w] = "loop"
    /\ queue_stop_event \/ queue_order # <<>>
    /\ lock_owner' = w
    /\ wpc' = [wpc EXCEPT ![w] = "pop"]
    /\ UNCHANGED <<storeVars, lifeVars, wcur, stopVars, genVars, calls, createVars, clientVars, ensureVars, submitVars, pollVars, waitVars>>

\* _queue_worker, lines 104-112: the thread finds the flag clear at line
\* 104 and enters the `with queue_condition:` block; its wait loop ends on
\* a queue that is not empty (line 107) and the test of line 110 finds the
\* flag clear.  The thread is then at line 113 and holds the lock.  (While
\* the queue is empty and the flag clear the thread sleeps in
\* queue_condition.wait(timeout=0.1), without the lock.)
WorkerEnter(w) ==
    /\ CanAcquire(w)
    /\ wpc[w] = "loop"
    /\ ~queue_stop_event
    /\ queue_order # <<>>
    /\ lock_owner' = w
    /\ wpc' = [wpc EXCEPT ![w] = "pop"]
    /\ UNCHANGED <<storeVars, lifeVars, wcur, stopVars, genVars, calls, createVars, clientVars, ensureVars, submitVars, pollVars, waitVars>>

\* A worker that leaves the `with` block after its tests and enters a
\* second one to pop: when the queue has been emptied in between, popleft
\* raises IndexError and the thread ends.
WorkerDequeue_TwoHolds(w) ==
    /\ \/ /\ wpc[w] = "pop"
          /\ lock_owner = w
          /\ lock_owner' = NoThread
          /\ wpc' = [wpc EXCEPT ![w] = "peeked"]
          /\ UNCHANGED <<queue_items, queue_order, wcur>>
       \/ /\ wpc[w] = "peeked"
          /\ CanAcquire(w)
          /\ IF queue_order = <<>>
             THEN /\ wpc' = [wpc EXCEPT ![w] = "dead"]
                  /\ UNCHANGED <<queue_items, queue_order, wcur, lock_owner>>
             ELSE /\ queue_order' = Tail(queue_order)
                  /\ IF Stored(Head(queue_order))
                     THEN /\ queue_items' = [queue_items EXCEPT ![Head(queue_order)] =
                                               [@ EXCEPT !.status = "generating",
                                                         !.error_message = NoError]]
                          /\ wcur' = [wcur EXCEPT ![w] = Head(queue_order)]
                          /\ wpc' = [wpc EXCEPT ![w] = "marked"]
                          /\ lock_owner' = w
                     ELSE /\ wpc' = [wpc EXCEPT ![w] = "loop"]
                          /\ UNCHANGED <<queue_items, wcur, lock_owner>>
    /\ IF wpc'[w] = "marked" THEN NotifyAll ELSE UNCHANGED upc
    /\ UNCHANGED <<next_id, lifeVars, stopVars, genVars, calls, createVars, clientVars, ensureVars, submitVars, pollVars, uid, uout>>

\* A worker with the test of line 115 inverted: it pops the head and goes
\* back to the top of the loop without marking or processing a stored item.
WorkerDequeue_Inverted(w) ==
    /\ wpc[w] = "pop"
    /\ lock_owner = w
    /\ queue_order # <<>>
    /\ queue_order' = Tail(queue_order)
    /\ wpc' = [wpc EXCEPT ![w] = "loop"]
    /\ lock_owner' = NoThread
    /\ UNCHANGED <<queue_items, wcur, upc>>
    /\ UNCHANGED <<next_id, lifeVars, stopVars, genVars, calls, createVars, clientVars, ensureVars, submitVars, pollVars, uid, uout>>

\* _queue_worker, lines 113-119, still inside the `with queue_condition:`
\* block entered at line 106: pop the head and mark it generating,
\* whatever the stop flag has become since the test of line 110
\* (queue_stop_event.set() takes no lock).  The thread is then at the end
\* of the block and still holds the lock; when the popped id is not
\* stored, `continue` leaves the block and the lock is free again; on an
\* empty queue popleft raises IndexError and the thread ends.
WorkerDequeue(w) ==
    /\ wpc[w] = "pop"
    /\ lock_owner = w
    /\ IF queue_order = <<>>
       THEN /\ wpc' = [wpc EXCEPT ![w] = "dead"]
            /\ lock_owner' = NoThread
            /\ UNCHANGED <<queue_items, queue_order, wcur>>
       ELSE /\ queue_order' = Tail(queue_order)
            /\ IF Stored(Head(queue_order))
               THEN /\ queue_items' = [queue_items EXCEPT ![Head(queue_order)] =
                                         [@ EXCEPT !.status = "generating",
                                                   !.error_message = NoError]]
                    /\ wcur' = [wcur EXCEPT ![w] = Head(queue_order)]
                    /\ wpc' = [wpc EXCEPT ![w] = "marked"]
                    /\ UNCHANGED lock_owner
               ELSE /\ wpc' = [wpc EXCEPT ![w] = "loop"]
                    /\ lock_owner' = NoThread
                    /\ UNCHANGED <<queue_items, wcur>>
    /\ IF wpc'[w] = "marked" THEN NotifyAll ELSE UNCHANGED upc
    /\ UNCHANGED <<next_id, lifeVars, stopVars, genVars, calls, createVars, clientVars, ensureVars, submitVars, pollVars, uid, uout>>

\* A worker whose call sits inside the `with queue_condition:` block: the
\* lock stays with the thread while the call is in progress.
WorkerRelease_KeepsLock(w) ==
    /\ wpc[w] = "marked"
    /\ lock_owner = w
    /\ wpc' = [wpc EXCEPT ![w] = "invoke"]
    /\ UNCHANGED <<storeVars, lifeVars, wcur, stopVars, genVars, calls, createVars, clientVars, lock_owner, ensureVars, submitVars, pollVars, waitVars>>

\* _queue_worker, lines 119-121: the thread leaves the
\* `with queue_condition:` block, which releases the lock.
WorkerRelease(w) ==
    /\ wpc[w] = "marked"
    /\ lock_owner = w
    /\ lock_owner' = NoThread
    /\ wpc' = [wpc EXCEPT ![w] = "invoke"]
    /\ UNCHANGED <<storeVars, lifeVars, wcur, stopVars, genVars, calls, createVars, clientVars, ensureVars, submitVars, pollVars, waitVars>>

\* _queue_worker, line 122: outside the lock, the call to
\* generate_audio_bytes_for_prompt begins.
WorkerInvoke(w) ==
    /\ wpc[w] = "invoke"
    /\ wpc' = [wpc EXCEPT ![w] = "call"]
    /\ calls' = Append(calls, wcur[w])
    /\ UNCHANGED <<storeVars, lifeVars, wcur, stopVars, genVars, createVars, clientVars, lock_owner, ensureVars, submitVars, pollVars, waitVars>>

\* A worker that writes the outcome without looking for the item: a job
\* that is no longer stored is created anew.
RecordSuccess_Recreates(j, wav) ==
    queue_items' = [i \in DOMAIN queue_items \cup {j} |->
                       IF i = j THEN GenerationQueueItem("completed", wav, NoError)
                       ELSE queue_items[i]]

\* A worker that puts a failed job back to `queued` to have it retried.
RecordFailure_Requeued(j) ==
    IF Stored(j)
    THEN queue_items' = [queue_items EXCEPT ![j] = [@ EXCEPT !.status = "queued"]]
    ELSE UNCHANGED queue_items

\* A worker that marks the job completed and forgets to store the bytes.
RecordSuccess_WithoutBytes(j, wav) ==
    IF Stored(j)
    THEN queue_items' = [queue_items EXCEPT ![j] =
                           [@ EXCEPT !.status = "completed",
                                     !.error_message = NoError]]
    ELSE UNCHANGED queue_items

\* A worker that stores the text of the exception it caught.
RecordFailure_StoresExceptionText(j) ==
    IF Stored(j)
    THEN queue_items' = [queue_items EXCEPT ![j] =
                           [@ EXCEPT !.status = "failed",
                                     !.error_message =
                                         xexc[CHOOSE w \in Workers : wcur[w] = j].msg,
                                     !.wav_bytes = NoWav]]
    ELSE UNCHANGED queue_items

\* _queue_worker, lines 129-135 and 138-144: what both except clauses write.
RecordFailure(j) ==
    IF Stored(j)
    THEN queue_items' = [queue_items EXCEPT ![j] =
                           [@ EXCEPT !.status = "failed",
                                     !.error_message = GENERATION_FAILED_MESSAGE,
                                     !.wav_bytes = NoWav]]
    ELSE UNCHANGED queue_items

\* _queue_worker, lines 146-152: what the else clause writes.
RecordSuccess(j, wav) ==
    IF Stored(j)
    THEN queue_items' = [queue_items EXCEPT ![j] =
                           [@ EXCEPT !.status = "completed",
                                     !.error_message = NoError,
                                     !.wav_bytes = wav]]
    ELSE UNCHANGED queue_items

\* The external call returns bytes: control reaches the else clause.
WorkerCallReturns(w) ==
    /\ wpc[w] = "call"
    /\ wpc' = [wpc EXCEPT ![w] = "else"]
    /\ UNCHANGED <<storeVars, lifeVars, wcur, stopVars, genVars, calls, createVars, clientVars, lock_owner, ensureVars, submitVars, pollVars, waitVars>>

\* The external call raises: control leaves the try block with an exception.
WorkerCallRaises(w) ==
    /\ wpc[w] = "call"
    /\ wpc' = [wpc EXCEPT ![w] = "raised"]
    /\ UNCHANGED <<storeVars, lifeVars, wcur, stopVars, genVars, calls, createVars, clientVars, lock_owner, ensureVars, submitVars, pollVars, waitVars>>

\* A worker that looks at the stop flag when its call returns and, if it is
\* set, drops the result and ends.
WorkerRecordSuccess_AbortsOnStop(w) ==
    /\ CanAcquire(w)
    /\ wpc[w] = "else"
    /\ IF queue_stop_event
       THEN /\ wpc' = [wpc EXCEPT ![w] = "dead"]
            /\ UNCHANGED queue_items
       ELSE /\ RecordSuccess(wcur[w], WavOf(wcur[w]))
            /\ wpc' = [wpc EXCEPT ![w] = "loop"]
    /\ wcur' = [wcur EXCEPT ![w] = NoJob]
    /\ NotifyAll
    /\ UNCHANGED <<queue_order, next_id, lifeVars, stopVars, genVars, calls, createVars, clientVars, lock_owner, ensureVars, submitVars, pollVars, uid, uout>>

\* A worker that keeps the id of the job in hand in a variable all threads
\* share: it records the bytes under the job of the latest call begun.
WorkerRecordSuccess_LatestCall(w) ==
    /\ CanAcquire(w)
    /\ wpc[w] = "else"
    /\ RecordSuccess(calls[Len(calls)], WavOf(wcur[w]))
    /\ wpc' = [wpc EXCEPT ![w] = "loop"]
    /\ wcur' = [wcur EXCEPT ![w] = NoJob]
    /\ NotifyAll
    /\ UNCHANGED <<queue_order, next_id, lifeVars, stopVars, genVars, calls, createVars, clientVars, lock_owner, ensureVars, submitVars, pollVars, uid, uout>>

\* A worker that records the result and leaves the waiters asleep.
WorkerRecordSuccess_NoNotify(w) ==
    /\ CanAcquire(w)
    /\ wpc[w] = "else"
    /\ RecordSuccess(wcur[w], WavOf(wcur[w]))
    /\ wpc' = [wpc EXCEPT ![w] = "loop"]
    /\ wcur' = [wcur EXCEPT ![w] = NoJob]
    /\ UNCHANGED <<queue_order, next_id, lifeVars, stopVars, genVars, calls, createVars, clientVars, lock_owner, ensureVars, submitVars, pollVars, waitVars>>

\* _queue_worker, lines 146-152, under the lock; then back to the top of
\* the loop (line 105: next_item_id = None).
WorkerRecordSuccess(w) ==
    /\ CanAcquire(w)
    /\ wpc[w] = "else"
    /\ RecordSuccess(wcur[w], WavOf(wcur[w]))
    /\ wpc' = [wpc EXCEPT ![w] = "loop"]
    /\ wcur' = [wcur EXCEPT ![w] = NoJob]
    /\ NotifyAll
    /\ UNCHANGED <<queue_order, next_id, lifeVars, stopVars, genVars, calls, createVars, clientVars, lock_owner, ensureVars, submitVars, pollVars, uid, uout>>

\* A worker that retries: it records the failure and puts the id back at
\* the tail of the queue.
WorkerRecordFailure_Retries(w, exc) ==
    /\ CanAcquire(w)
    /\ wpc[w] = "raised"
    /\ exc \in RecognizedErrors
    /\ RecordFailure(wcur[w])
    /\ queue_order' = IF Stored(wcur[w]) THEN Append(queue_order, wcur[w]) ELSE queue_order
    /\ wpc' = [wpc EXCEPT ![w] = "loop"]
    /\ wcur' = [wcur EXCEPT ![w] = NoJob]
    /\ NotifyAll
    /\ UNCHANGED <<next_id, lifeVars, stopVars, genVars, calls, createVars, clientVars, lock_owner, ensureVars, submitVars, pollVars, uid, uout>>

\* _queue_worker, lines 127-135: the raised exception exc is one of the
\* types the first except clause names; under the lock, then back to the top.
WorkerRecordFailure(w, exc) ==
    /\ CanAcquire(w)
    /\ wpc[w] = "raised"
    /\ exc \in RecognizedErrors
    /\ RecordFailure(wcur[w])
    /\ wpc' = [wpc EXCEPT ![w] = "loop"]
    /\ wcur' = [wcur EXCEPT ![w] = NoJob]
    /\ NotifyAll
    /\ UNCHANGED <<queue_order, next_id, lifeVars, stopVars, genVars, calls, createVars, clientVars, lock_owner, ensureVars, submitVars, pollVars, uid, uout>>

\* A worker without the safety net: an exception the first clause does not
\* name leaves _queue_worker, and the thread ends with nothing recorded.
WorkerRecordUnexpected_Dies(w, exc) ==
    /\ wpc[w] = "raised"
    /\ exc \notin RecognizedErrors
    /\ wpc' = [wpc EXCEPT ![w] = "dead"]
    /\ UNCHANGED <<storeVars, lifeVars, wcur, stopVars, genVars, calls, createVars, clientVars, lock_owner, ensureVars, submitVars, pollVars, waitVars>>

\* _queue_worker, lines 136-144 (the safety net): exc is any other
\* Exception; under the lock, then back to the top.
WorkerRecordUnexpected(w, exc) ==
    /\ CanAcquire(w)
    /\ wpc[w] = "raised"
    /\ exc \notin RecognizedErrors
    /\ RecordFailure(wcur[w])
    /\ wpc' = [wpc EXCEPT ![w] = "loop"]
    /\ wcur' = [wcur EXCEPT ![w] = NoJob]
    /\ NotifyAll
    /\ UNCHANGED <<queue_order, next_id, lifeVars, stopVars, genVars, calls, createVars, clientVars, lock_owner, ensureVars, submitVars, pollVars, uid, uout>>

\* ------------------------------------------------ the external client
\* repositories/acestep_repository.py: generate_audio_bytes_for_prompt, run
\* by the worker thread between WorkerInvoke and the record of the result.
\* The remote service is the environment: it answers every request with a
\* response or a transport error of its choosing.

\* The poll budget.  The code's value is 1200; the loop is checked here for
\* a small budget.
MAX_POLL_ATTEMPTS == 3

\* What the remote reports as the status of a task: 0 pending, 1 done,
\* 2 failed, and 3 for every other value.
PollStatuses == {0, 1, 2, 3}

Exc(type, msg) == [type |-> type, msg |-> msg]

\* poll_until_complete, lines 82 and 84
TaskFailed == Exc("RuntimeError", "ACE-Step task failed")
PollTimedOut == Exc("RuntimeError", "ACE-Step task polling timed out")

\* post_json: urlopen raises URLError, HTTPError or TimeoutError, the body
\* is not UTF-8 (UnicodeDecodeError, which the worker's first except clause
\* does not name), json.loads raises JSONDecodeError, or RecursionError (a
\* RuntimeError) on a body nested too deep, or the JSON is not an object
\* (line 41).
PostJsonErrors ==
    {Exc(t, "transport detail") : t \in {"URLError", "HTTPError", "TimeoutError",
                                          "JSONDecodeError", "RuntimeError",
                                          "Exception"}}
        \cup {Exc("RuntimeError", "Unexpected JSON response")}

\* extract_file_path: no result string, malformed result JSON, result JSON
\* nested too deep for json.loads (RecursionError, a RuntimeError), result
\* JSON with an integer of more than 4300 digits (json.loads raises a plain
\* ValueError, which the worker's first except clause does not name), no
\* file path.
ExtractErrors ==
    {Exc("RuntimeError", "Missing result JSON"),
     Exc("RuntimeError", "No valid file path in result list"),
     Exc("RuntimeError", "Missing file path in result"),
     Exc("JSONDecodeError", "transport detail"),
     Exc("RuntimeError", "transport detail"),
     Exc("Exception", "transport detail")}

\* get_bytes: urlopen raises URLError, HTTPError or TimeoutError, or the
\* file path the remote reported does not make a URL (http.client.InvalidURL
\* for a path with a space, ValueError for a malformed host), which the
\* worker's first except clause does not name.
FetchErrors ==
    {Exc(t, "transport detail") : t \in {"URLError", "HTTPError", "TimeoutError",
                                          "Exception"}}

\* The record of a task the remote reports done, with what it carries
\* under `result`.
DoneRecord(r) == [kind |-> "dict", status |-> [kind |-> "int", val |-> 1], result |-> r]

\* The task_id the remote hands out for the n-th task submitted to it.
TaskOf(n) == <<"task", n>>

\* The condition behind an exception of the client.
Cause(exc) ==
    IF exc = TaskFailed THEN "remote_failure"
    ELSE IF exc = PollTimedOut THEN "poll_exhausted"
         ELSE "transport"

\* The entries of a call's log: the poll requests, the statuses received,
\* the sleeps, the fetches.
PollRequests(log) == SelectSeq(log, LAMBDA e : e[1] = "poll")
PollResponses(log) == SelectSeq(log, LAMBDA e : e[1] = "status")
Sleeps(log) == SelectSeq(log, LAMBDA e : e[1] = "sleep")
Fetches(log) == SelectSeq(log, LAMBDA e : e[1] = "fetch")

\* An exception leaves generate_audio_bytes_for_prompt: control reaches the
\* except clauses of the worker.
ClientRaises(w, exc, log) ==
    /\ wpc' = [wpc EXCEPT ![w] = "raised"]
    /\ xpc' = [xpc EXCEPT ![w] = "none"]
    /\ xtask' = [xtask EXCEPT ![w] = NoTask]
    /\ xlog' = [xlog EXCEPT ![w] = log]
    /\ xexc' = [xexc EXCEPT ![w] = exc]
    /\ cause' = [cause EXCEPT ![wcur[w]] = Cause(exc)]

\* The call moves on to its next step.
ClientMoves(w, pc, log) ==
    /\ xpc' = [xpc EXCEPT ![w] = pc]
    /\ xlog' = [xlog EXCEPT ![w] = log]
    /\ UNCHANGED <<wpc, xtask, xexc, cause>>

\* poll_until_complete, line 80: the loop returns the record that reports
\* status 1; the call goes on to the path extraction with it.
ClientDone(w, record, log) ==
    /\ xpc' = [xpc EXCEPT ![w] = "extract"]
    /\ xlog' = [xlog EXCEPT ![w] = log]
    /\ xrecord' = [xrecord EXCEPT ![w] = record]
    /\ UNCHANGED <<wpc, xtask, xexc, cause>>

\* `response.get("data") or response`: a value Python takes as true.
Truthy(d) == d.kind \in {"list", "dict"}

\* A submit_task that looks for the task_id at the top level first and
\* under `data` only when the top level has none.
SubmitTask_TopLevelFirst(response) ==
    IF response.task_id.kind = "string"
    THEN [ret |-> "task_id", task_id |-> response.task_id.val, exc |-> NoExc]
    ELSE IF response.data.kind = "dict" /\ response.data.task_id.kind = "string"
         THEN [ret |-> "task_id", task_id |-> response.data.task_id.val, exc |-> NoExc]
         ELSE [ret |-> "raise", task_id |-> NoTask,
               exc |-> Exc("RuntimeError", "Missing task_id in response")]

\* submit_task, lines 66-70, on the response of post_json: the payload is
\* the value under `data` when that is truthy and the response otherwise;
\* its task_id is returned when it is a non-empty string.
SubmitTask(response) ==
    LET task_id == IF Truthy(response.data)
                   THEN IF response.data.kind = "dict"
                        THEN response.data.task_id
                        ELSE JsonAbsent
                   ELSE response.task_id
    IN  IF task_id.kind = "string"
        THEN [ret |-> "task_id", task_id |-> task_id.val, exc |-> NoExc]
        ELSE [ret |-> "raise", task_id |-> NoTask,
              exc |-> Exc("RuntimeError", "Missing task_id in response")]

\* generate_audio_bytes_for_prompt, line 113, when post_json has returned
\* this response: submit_task returns its task_id and the call goes on to
\* poll, or submit_task raises.
ClientSubmitted(w, response) ==
    IF SubmitTask(response).ret = "task_id"
    THEN /\ xpc' = [xpc EXCEPT ![w] = "poll"]
         /\ xtask' = [xtask EXCEPT ![w] = SubmitTask(response).task_id]
         /\ xlog' = [xlog EXCEPT ![w] = <<<<"submit", SubmitTask(response).task_id>>>>]
         /\ xexc' = [xexc EXCEPT ![w] = NoExc]
         /\ UNCHANGED <<wpc, cause>>
    ELSE ClientRaises(w, SubmitTask(response).exc, <<<<"submit">>>>)

\* generate_audio_bytes_for_prompt, line 113: submit_task posts the task;
\* the remote answers with a response of its choosing, or post_json raises.
ClientSubmit(w) ==
    /\ wpc[w] = "call"
    /\ xpc[w] = "none"
    /\ \/ \E response \in SubmitResponses({TaskOf(Len(calls))}) :
             ClientSubmitted(w, response)
       \/ \E exc \in PostJsonErrors : ClientRaises(w, exc, <<<<"submit">>>>)
    /\ UNCHANGED <<storeVars, lifeVars, wcur, stopVars, genVars, calls, createVars, lock_owner, ensureVars, submitVars, pollVars, waitVars>>

\* The same step against a remote that has fixed its response beforehand.
ClientSubmitFixed(w) ==
    /\ wpc[w] = "call"
    /\ xpc[w] = "none"
    /\ xlog[w] = <<>>
    /\ ClientSubmitted(w, sresp)
    /\ UNCHANGED <<storeVars, lifeVars, wcur, stopVars, genVars, calls, createVars, lock_owner, ensureVars, submitVars, pollVars, waitVars>>

\* A poll loop that sleeps before it looks at the status: it also sleeps
\* after the response that reports the task done.
ClientPoll_SleepsBeforeTest(w) ==
    /\ xpc[w] = "poll"
    /\ \/ \E st \in PollStatuses :
             IF st = 1
             THEN \E r \in ResultValues :
                      ClientDone(w, DoneRecord(r),
                          xlog[w] \o <<<<"poll", xtask[w]>>, <<"status", st>>, <<"sleep">>>>)
             ELSE /\ IF st = 2
                     THEN ClientRaises(w, TaskFailed,
                              xlog[w] \o <<<<"poll", xtask[w]>>, <<"status", st>>>>)
                     ELSE ClientMoves(w, "sleep",
                              xlog[w] \o <<<<"poll", xtask[w]>>, <<"status", st>>>>)
                  /\ UNCHANGED xrecord
       \/ /\ \E exc \in PostJsonErrors :
                ClientRaises(w, exc, Append(xlog[w], <<"poll", xtask[w]>>))
          /\ UNCHANGED xrecord
    /\ UNCHANGED <<storeVars, lifeVars, wcur, stopVars, genVars, calls, createVars, lock_owner, ensureVars, submitVars, presp, xpath, waitVars>>

\* A poll loop without the test of line 81: status 2 is one more pending
\* response.
ClientPoll_IgnoresFailure(w) ==
    /\ xpc[w] = "poll"
    /\ \/ \E st \in PollStatuses :
             IF st = 1
             THEN \E r \in ResultValues :
                      ClientDone(w, DoneRecord(r),
                          xlog[w] \o <<<<"poll", xtask[w]>>, <<"status", st>>>>)
             ELSE /\ ClientMoves(w, "sleep",
                         xlog[w] \o <<<<"poll", xtask[w]>>, <<"status", st>>>>)
                  /\ UNCHANGED xrecord
       \/ /\ \E exc \in PostJsonErrors :
                ClientRaises(w, exc, Append(xlog[w], <<"poll", xtask[w]>>))
          /\ UNCHANGED xrecord
    /\ UNCHANGED <<storeVars, lifeVars, wcur, stopVars, genVars, calls, createVars, lock_owner, ensureVars, submitVars, presp, xpath, waitVars>>

\* poll_until_complete, lines 75-82: one poll request and the test of the
\* status it reports.  The record that reports status 1 is returned with
\* whatever the remote has put under `result`.
ClientPoll(w) ==
    /\ xpc[w] = "poll"
    /\ \/ \E st \in PollStatuses :
             IF st = 1
             THEN \E r \in ResultValues :
                      ClientDone(w, DoneRecord(r),
                          xlog[w] \o <<<<"poll", xtask[w]>>, <<"status", st>>>>)
             ELSE /\ IF st = 2
                     THEN ClientRaises(w, TaskFailed,
                              xlog[w] \o <<<<"poll", xtask[w]>>, <<"status", st>>>>)
                     ELSE ClientMoves(w, "sleep",
                              xlog[w] \o <<<<"poll", xtask[w]>>, <<"status", st>>>>)
                  /\ UNCHANGED xrecord
       \/ /\ \E exc \in PostJsonErrors :
                ClientRaises(w, exc, Append(xlog[w], <<"poll", xtask[w]>>))
          /\ UNCHANGED xrecord
    /\ UNCHANGED <<storeVars, lifeVars, wcur, stopVars, genVars, calls, createVars, lock_owner, ensureVars, submitVars, presp, xpath, waitVars>>

\* A poll loop written as `while True`: it polls for as long as the task
\* is pending.
ClientSleep_Unbounded(w) ==
    /\ xpc[w] = "sleep"
    /\ ClientMoves(w, "poll", Append(xlog[w], <<"sleep">>))
    /\ UNCHANGED <<storeVars, lifeVars, wcur, stopVars, genVars, calls, createVars, lock_owner, ensureVars, submitVars, pollVars, waitVars>>

\* poll_until_complete, lines 83-84 and 74: sleep the interval; then the
\* next attempt, or the budget is spent.
ClientSleep(w) ==
    /\ xpc[w] = "sleep"
    /\ IF Len(PollRequests(xlog[w])) < MAX_POLL_ATTEMPTS
       THEN ClientMoves(w, "poll", Append(xlog[w], <<"sleep">>))
       ELSE ClientRaises(w, PollTimedOut, Append(xlog[w], <<"sleep">>))
    /\ UNCHANGED <<storeVars, lifeVars, wcur, stopVars, genVars, calls, createVars, lock_owner, ensureVars, submitVars, pollVars, waitVars>>

\* poll_until_complete, lines 76-77: the object whose status is read.  It
\* is the first element of a non-empty `data` list or a non-empty `data`
\* object, and {} for every other response.
PollItem(response) ==
    IF response.data.kind \in {"list", "dict"} THEN response.data.item ELSE NoRecord

\* A poll that falls back on the top-level status when the response has no
\* task record under `data`.
PollOnce_FlatFallback(response) ==
    LET item == PollItem(response)
        status == IF response.data.kind \in {"list", "dict"}
                  THEN item.status ELSE response.status
    IN  IF item.kind = "nondict"
        THEN [ret |-> "raise", exc |-> Exc("Exception", "transport detail")]
        ELSE IF status = [kind |-> "int", val |-> 1]
             THEN [ret |-> "done", exc |-> NoExc]
             ELSE IF status = [kind |-> "int", val |-> 2]
                  THEN [ret |-> "raise", exc |-> TaskFailed]
                  ELSE [ret |-> "pending", exc |-> NoExc]

\* poll_until_complete, lines 76-83, on one response of post_json: the
\* record is returned (status 1), the task has failed (status 2), or the
\* loop sleeps and goes on.  item.get on a first element that is not an
\* object raises AttributeError, which the worker's first except clause
\* does not name.
PollOnce(response) ==
    LET item == PollItem(response)
    IN  IF item.kind = "nondict"
        THEN [ret |-> "raise", exc |-> Exc("Exception", "transport detail")]
        ELSE IF item.status = [kind |-> "int", val |-> 1]
             THEN [ret |-> "done", exc |-> NoExc]
             ELSE IF item.status = [kind |-> "int", val |-> 2]
                  THEN [ret |-> "raise", exc |-> TaskFailed]
                  ELSE [ret |-> "pending", exc |-> NoExc]

\* The log entry for the status the loop has read from a response.
StatusEntry(response) ==
    IF PollItem(response).kind = "dict" /\ PollItem(response).status.kind = "int"
    THEN <<"status", PollItem(response).status.val>>
    ELSE <<"nostatus">>

\* poll_until_complete against a remote that answers every poll with the
\* response it has fixed beforehand.
ClientPollFixed(w) ==
    /\ xpc[w] = "poll"
    /\ LET log == xlog[w] \o <<<<"poll", xtask[w]>>, StatusEntry(presp)>>
       IN  IF PollOnce(presp).ret = "done"
           THEN ClientDone(w, PollItem(presp), log)
           ELSE /\ IF PollOnce(presp).ret = "raise"
                   THEN ClientRaises(w, PollOnce(presp).exc, log)
                   ELSE ClientMoves(w, "sleep", log)
                /\ UNCHANGED xrecord
    /\ UNCHANGED <<storeVars, lifeVars, wcur, stopVars, genVars, calls, createVars, lock_owner, ensureVars, submitVars, presp, xpath, waitVars>>

\* The elements of a result list that are objects with a non-empty string
\* under `file`.
ValidAt(items) ==
    {i \in 1..Len(items) : items[i].kind = "dict" /\ items[i].file.kind = "string"}

\* An extract_file_path that keeps the last valid element of the list.
ExtractFilePath_LastWins(record) ==
    LET r == record.result
        q == r.parsed
    IN  IF r.kind \notin {"string", "malformed", "deep", "bigint"}
        THEN [ret |-> "raise", path |-> NoPath,
              exc |-> Exc("RuntimeError", "Missing result JSON")]
        ELSE IF r.kind = "malformed"
        THEN [ret |-> "raise", path |-> NoPath,
              exc |-> Exc("JSONDecodeError", "transport detail")]
        ELSE IF r.kind = "deep"
        THEN [ret |-> "raise", path |-> NoPath,
              exc |-> Exc("RuntimeError", "transport detail")]
        ELSE IF r.kind = "bigint"
        THEN [ret |-> "raise", path |-> NoPath,
              exc |-> Exc("Exception", "transport detail")]
        ELSE IF q.kind = "list"
        THEN IF ValidAt(q.items) # {}
             THEN [ret |-> "path",
                   path |-> q.items[CHOOSE i \in ValidAt(q.items) :
                                        \A k \in ValidAt(q.items) : i >= k].file.val,
                   exc |-> NoExc]
             ELSE [ret |-> "raise", path |-> NoPath,
                   exc |-> Exc("RuntimeError", "No valid file path in result list")]
        ELSE IF q.kind = "dict" /\ q.file.kind = "string"
        THEN [ret |-> "path", path |-> q.file.val, exc |-> NoExc]
        ELSE [ret |-> "raise", path |-> NoPath,
              exc |-> Exc("RuntimeError", "Missing file path in result")]

\* extract_file_path, lines 88-105, on the record poll_until_complete
\* returned: the path, or the exception raised.  json.loads (line 92)
\* raises JSONDecodeError on a string that is not JSON, RecursionError on
\* one nested too deep and ValueError on one with an oversized integer.
ExtractFilePath(record) ==
    LET r == record.result
        q == r.parsed
    IN  IF r.kind \notin {"string", "malformed", "deep", "bigint"}
        THEN [ret |-> "raise", path |-> NoPath,
              exc |-> Exc("RuntimeError", "Missing result JSON")]
        ELSE IF r.kind = "malformed"
        THEN [ret |-> "raise", path |-> NoPath,
              exc |-> Exc("JSONDecodeError", "transport detail")]
        ELSE IF r.kind = "deep"
        THEN [ret |-> "raise", path |-> NoPath,
              exc |-> Exc("RuntimeError", "transport detail")]
        ELSE IF r.kind = "bigint"
        THEN [ret |-> "raise", path |-> NoPath,
              exc |-> Exc("Exception", "transport detail")]
        ELSE IF q.kind = "list"
        THEN IF ValidAt(q.items) # {}
             THEN [ret |-> "path",
                   path |-> q.items[CHOOSE i \in ValidAt(q.items) :
                                        \A k \in ValidAt(q.items) : i <= k].file.val,
                   exc |-> NoExc]
             ELSE [ret |-> "raise", path |-> NoPath,
                   exc |-> Exc("RuntimeError", "No valid file path in result list")]
        ELSE IF q.kind = "dict" /\ q.file.kind = "string"
        THEN [ret |-> "path", path |-> q.file.val, exc |-> NoExc]
        ELSE [ret |-> "raise", path |-> NoPath,
              exc |-> Exc("RuntimeError", "Missing file path in result")]

\* A client that requests the file before it has looked for the path in
\* the record: the fetch goes out although the extraction fails.
ClientExtract_FetchesFirst(w) ==
    /\ xpc[w] = "extract"
    /\ IF ExtractFilePath(xrecord[w]).ret = "path"
       THEN /\ ClientMoves(w, "fetch", xlog[w])
            /\ xpath' = [xpath EXCEPT ![w] = ExtractFilePath(xrecord[w]).path]
            /\ UNCHANGED xrecord
       ELSE /\ ClientRaises(w, ExtractFilePath(xrecord[w]).exc,
                   Append(xlog[w], <<"fetch", NoPath>>))
            /\ xrecord' = [xrecord EXCEPT ![w] = NoRecord]
            /\ UNCHANGED xpath
    /\ UNCHANGED <<storeVars, lifeVars, wcur, stopVars, genVars, calls, createVars, lock_owner, ensureVars, submitVars, presp, waitVars>>

\* generate_audio_bytes_for_prompt, line 115: extract_file_path finds the
\* path in the record poll_until_complete returned and file_path is set,
\* or it raises and the call ends.
ClientExtract(w) ==
    /\ xpc[w] = "extract"
    /\ IF ExtractFilePath(xrecord[w]).ret = "path"
       THEN /\ ClientMoves(w, "fetch", xlog[w])
            /\ xpath' = [xpath EXCEPT ![w] = ExtractFilePath(xrecord[w]).path]
            /\ UNCHANGED xrecord
       ELSE /\ ClientRaises(w, ExtractFilePath(xrecord[w]).exc, xlog[w])
            /\ xrecord' = [xrecord EXCEPT ![w] = NoRecord]
            /\ UNCHANGED xpath
    /\ UNCHANGED <<storeVars, lifeVars, wcur, stopVars, genVars, calls, createVars, lock_owner, ensureVars, submitVars, presp, waitVars>>

\* generate_audio_bytes_for_prompt, line 116: get_bytes fetches the file
\* at the path extracted; the bytes are returned to the worker, or the
\* fetch raises.  Either way the call ends.
ClientFetch(w) ==
    /\ xpc[w] = "fetch"
    /\ \/ /\ wpc' = [wpc EXCEPT ![w] = "else"]
          /\ xpc' = [xpc EXCEPT ![w] = "none"]
          /\ xtask' = [xtask EXCEPT ![w] = NoTask]
          /\ xlog' = [xlog EXCEPT ![w] = Append(xlog[w], <<"fetch", xpath[w]>>)]
          /\ UNCHANGED <<xexc, cause>>
       \/ \E exc \in FetchErrors :
             ClientRaises(w, exc, Append(xlog[w], <<"fetch", xpath[w]>>))
    /\ xrecord' = [xrecord EXCEPT ![w] = NoRecord]
    /\ UNCHANGED <<storeVars, lifeVars, wcur, stopVars, genVars, calls, createVars, lock_owner, ensureVars, submitVars, presp, xpath, waitVars>>

\* -------------------------------------------- the synchronous facade

\* A wait that treats a missing item like a pending one: it waits for the
\* item until the deadline.
WaitForTerminalStatus_MissingWaits(j, expired) ==
    IF Stored(j) /\ IsTerminal(queue_items[j].status)
    THEN [ret |-> "item", item |-> queue_items[j]]
    ELSE IF expired THEN [ret |-> "none"] ELSE [ret |-> "wait"]

\* A wait that looks at the clock before it looks at the status.
WaitForTerminalStatus_DeadlineFirst(j, expired) ==
    IF ~Stored(j) THEN [ret |-> "none"]
    ELSE IF expired THEN [ret |-> "none"]
         ELSE IF IsTerminal(queue_items[j].status)
              THEN [ret |-> "item", item |-> queue_items[j]]
              ELSE [ret |-> "wait"]

\* wait_for_terminal_status, one inspection under the lock (lines 79-100):
\* what it returns, or that it waits again.
WaitForTerminalStatus(j, expired) ==
    IF ~Stored(j) THEN [ret |-> "none"]
    ELSE IF IsTerminal(queue_items[j].status)
         THEN [ret |-> "item", item |-> queue_items[j]]
         ELSE IF expired THEN [ret |-> "none"] ELSE [ret |-> "wait"]

\* generate_audio_for_request, lines 188-193: the outcome for what the wait
\* returned.
GenerateOutcome(r) ==
    IF r.ret = "none" THEN [kind |-> "timeout", wav |-> NoWav]
    ELSE IF r.item.status = "failed" \/ r.item.wav_bytes = NoWav
         THEN [kind |-> "failed", wav |-> NoWav]
         ELSE [kind |-> "bytes", wav |-> r.item.wav_bytes]

\* generate_audio_for_request, line 184: the request thread enters
\* ensure_queue_worker_running.
GenEnsure ==
    /\ gpc = "idle"
    /\ EnsureBegin
    /\ gpc' = "ensure"
    /\ UNCHANGED <<storeVars, lifeVars, wpc, wcur, stopVars, gid, gexpired, gout, calls, createVars, clientVars, apc, submitVars, pollVars, waitVars>>

\* generate_audio_for_request, line 185, and the deadline set at line 75
GenEnqueue ==
    /\ gpc = "enqueue"
    /\ EnqueueItem
    /\ gid' = next_id + 1
    /\ gexpired' = FALSE
    /\ gpc' = "wait"
    /\ UNCHANGED <<lifeVars, wpc, wcur, stopVars, gout, calls, createVars, clientVars, lock_owner, ensureVars, submitVars, pollVars, uid, uout>>

\* QUEUE_WAIT_TIMEOUT_SECONDS pass while the caller waits.
DeadlineElapses ==
    /\ gpc = "wait"
    /\ ~gexpired
    /\ gexpired' = TRUE
    /\ UNCHANGED <<storeVars, lifeVars, wpc, wcur, stopVars, gpc, gid, gout, calls, createVars, clientVars, lock_owner, ensureVars, submitVars, pollVars, waitVars>>

\* A facade that cancels the job it gave up on: on a timeout it takes the
\* job out of the store and of the queue.
GenWaitReturns_CancelsOnTimeout ==
    /\ gpc = "wait"
    /\ WaitForTerminalStatus(gid, gexpired).ret # "wait"
    /\ gout' = GenerateOutcome(WaitForTerminalStatus(gid, gexpired))
    /\ gpc' = "done"
    /\ IF WaitForTerminalStatus(gid, gexpired).ret = "none"
       THEN /\ queue_items' = [j \in DOMAIN queue_items \ {gid} |-> queue_items[j]]
            /\ queue_order' = SelectSeq(queue_order, LAMBDA x : x # gid)
            /\ UNCHANGED next_id
       ELSE UNCHANGED storeVars
    /\ UNCHANGED <<lifeVars, wpc, wcur, stopVars, gid, gexpired, calls, createVars, clientVars, lock_owner, ensureVars, submitVars, pollVars, waitVars>>

\* The waiter holds the lock, inspects its item and returns; the facade
\* turns what it returned into bytes or an error.
GenWaitReturns ==
    /\ CanAcquire(NoThread)
    /\ gpc = "wait"
    /\ WaitForTerminalStatus(gid, gexpired).ret # "wait"
    /\ gout' = GenerateOutcome(WaitForTerminalStatus(gid, gexpired))
    /\ gpc' = "done"
    /\ UNCHANGED <<storeVars, lifeVars, wpc, wcur, stopVars, gid, gexpired, calls, createVars, clientVars, lock_owner, ensureVars, submitVars, pollVars, waitVars>>

\* The request is answered; the thread is free for the next request.
GenFinish ==
    /\ gpc = "done"
    /\ gpc' = "idle"
    /\ gid' = NoJob
    /\ gexpired' = FALSE
    /\ gout' = [kind |-> "none", wav |-> NoWav]
    /\ UNCHANGED <<storeVars, lifeVars, wpc, wcur, stopVars, calls, createVars, clientVars, lock_owner, ensureVars, submitVars, pollVars, waitVars>>

\* ------------------------------------ a wait without a deadline

\* A thread calls wait_for_terminal_status(item_id) with timeout_seconds
\* None, for an id that enqueue_generation_request has returned.
UWaitBegin(j) ==
    /\ upc = "idle"
    /\ j <= next_id
    /\ upc' = "inspect"
    /\ uid' = j
    /\ UNCHANGED <<storeVars, lifeVars, wpc, wcur, stopVars, genVars, calls, createVars, clientVars, lock_owner, ensureVars, submitVars, pollVars, uout>>

\* wait_for_terminal_status, lines 79-95, one pass of the loop under the
\* lock, on entry or after a wake: return None, return the copy of the
\* item, or call queue_condition.wait(), which releases the lock and puts
\* the thread to sleep in one step.
UWaitInspect ==
    /\ CanAcquire(NoThread)
    /\ upc \in {"inspect", "woken"}
    /\ IF WaitForTerminalStatus(uid, FALSE).ret = "wait"
       THEN upc' = "asleep" /\ UNCHANGED uout
       ELSE upc' = "done" /\ uout' = WaitForTerminalStatus(uid, FALSE).ret
    /\ UNCHANGED <<storeVars, lifeVars, wpc, wcur, stopVars, genVars, calls, createVars, clientVars, lock_owner, ensureVars, submitVars, pollVars, uid>>

\* The caller has its answer.
UWaitFinish ==
    /\ upc = "done"
    /\ upc' = "idle"
    /\ uid' = NoJob
    /\ uout' = "None"
    /\ UNCHANGED <<storeVars, lifeVars, wpc, wcur, stopVars, genVars, calls, createVars, clientVars, lock_owner, ensureVars, submitVars, pollVars>>

\* ------------------------------------------- the asynchronous facades

\* A snapshot that leaves error_message out of the copy.
GetQueueItemSnapshot_DropsError(j) ==
    IF Stored(j)
    THEN [ret |-> "item", item |-> [queue_items[j] EXCEPT !.error_message = NoError]]
    ELSE [ret |-> "none"]

\* get_queue_item_snapshot: a copy of the stored item, taken under the
\* lock, or None.
GetQueueItemSnapshot(j) ==
    IF Stored(j) THEN [ret |-> "item", item |-> queue_items[j]]
    ELSE [ret |-> "none"]

\* get_generation_request_status: QueueItemNotFoundError, or the dict
\* {id, status, error}.
GetGenerationRequestStatus(j) ==
    IF GetQueueItemSnapshot(j).ret = "none"
    THEN [kind |-> "not_found", id |-> NoJob, status |-> "None", error |-> NoError]
    ELSE [kind |-> "dict", id |-> j,
          status |-> GetQueueItemSnapshot(j).item.status,
          error |-> GetQueueItemSnapshot(j).item.error_message]

\* A facade that tests for "not completed" before it tests for "failed".
GetGenerationRequestAudio_NotReadyFirst(j) ==
    IF GetQueueItemSnapshot(j).ret = "none"
    THEN [kind |-> "not_found", wav |-> NoWav]
    ELSE IF \/ GetQueueItemSnapshot(j).item.status # "completed"
            \/ GetQueueItemSnapshot(j).item.wav_bytes = NoWav
         THEN [kind |-> "not_ready", wav |-> NoWav]
         ELSE IF GetQueueItemSnapshot(j).item.status = "failed"
              THEN [kind |-> "failed", wav |-> NoWav]
              ELSE [kind |-> "bytes", wav |-> GetQueueItemSnapshot(j).item.wav_bytes]

\* get_generation_request_audio: one of the three errors, or the bytes.
GetGenerationRequestAudio(j) ==
    IF GetQueueItemSnapshot(j).ret = "none"
    THEN [kind |-> "not_found", wav |-> NoWav]
    ELSE IF GetQueueItemSnapshot(j).item.status = "failed"
         THEN [kind |-> "failed", wav |-> NoWav]
         ELSE IF \/ GetQueueItemSnapshot(j).item.status # "completed"
                 \/ GetQueueItemSnapshot(j).item.wav_bytes = NoWav
              THEN [kind |-> "not_ready", wav |-> NoWav]
              ELSE [kind |-> "bytes", wav |-> GetQueueItemSnapshot(j).item.wav_bytes]

\* create_generation_request, line 197: the request thread enters
\* ensure_queue_worker_running.
CreateEnsure ==
    /\ cpc = "idle"
    /\ EnsureBegin
    /\ cpc' = "ensure"
    /\ UNCHANGED <<storeVars, lifeVars, wpc, wcur, stopVars, genVars, calls, cid, cout, cstatus, clientVars, apc, submitVars, pollVars, waitVars>>

\* create_generation_request, line 198: enqueue_generation_request returns
\* the item object it stored, after it has released the lock.
CreateEnqueue ==
    /\ cpc = "enqueue"
    /\ EnqueueItem
    /\ cid' = next_id + 1
    /\ cpc' = "read"
    /\ UNCHANGED <<lifeVars, wpc, wcur, stopVars, genVars, calls, cout, cstatus, clientVars, lock_owner, ensureVars, submitVars, pollVars, uid, uout>>

\* item.status of the object the thread inside create_generation_request
\* holds.  The item is the object the store holds (line 66 stores the
\* reference), so while it is stored its status is whatever the worker has
\* written to it by now.
ItemStatus == IF Stored(cid) THEN queue_items[cid].status ELSE cstatus

\* create_generation_request, line 199: outside the lock, build the dict
\* from item.id and item.status.
CreateReturn ==
    /\ cpc = "read"
    /\ cout' = [id |-> cid, status |-> ItemStatus]
    /\ cpc' = "done"
    /\ UNCHANGED <<storeVars, lifeVars, wpc, wcur, stopVars, genVars, calls, cid, cstatus, clientVars, lock_owner, ensureVars, submitVars, pollVars, waitVars>>

\* The request is answered; the thread is free for the next request.
CreateFinish ==
    /\ cpc = "done"
    /\ cpc' = "idle"
    /\ cid' = NoJob
    /\ cout' = [id |-> NoJob, status |-> "None"]
    /\ cstatus' = "None"
    /\ UNCHANGED <<storeVars, lifeVars, wpc, wcur, stopVars, genVars, calls, clientVars, lock_owner, ensureVars, submitVars, pollVars, waitVars>>

\* ------------------------------------------------------------ behaviours

WorkerStep(w) ==
    \/ WorkerEnter(w)
    \/ WorkerDequeue(w)
    \/ WorkerRelease(w)
    \/ WorkerInvoke(w)
    \/ WorkerCallReturns(w)
    \/ WorkerCallRaises(w)
    \/ WorkerRecordSuccess(w)
    \/ \E exc \in ClientErrors : WorkerRecordFailure(w, exc)
    \/ \E exc \in ClientErrors : WorkerRecordUnexpected(w, exc)

\* The queue and the lifecycle of its worker: every caller of
\* enqueue_generation_request and ensure_queue_worker_running (the facades
\* among them), stop_queue_worker, the reset, and the worker threads.
Next ==
    \/ Enqueue
    \/ ResetQueue
    \/ EnsureRunning
    \/ EnsureTestAlive
    \/ EnsureClearFlag
    \/ EnsureCreate
    \/ EnsureStart
    \/ EnsureFinish
    \/ StopSet
    \/ StopNotify
    \/ StopTestHandle
    \/ StopBeginJoin
    \/ StopJoinReturns
    \/ StopJoinTimesOut
    \/ StopRaised
    \/ StopClear
    \/ \E w \in Workers : WorkerExit(w)
    \/ \E w \in Workers : WorkerStep(w)

Spec == Init /\ [][Next]_vars

\* The thread inside stop_queue_worker runs on once it has set the flag.
StopProgress ==
    \/ StopNotify
    \/ StopTestHandle
    \/ StopBeginJoin
    \/ StopJoinReturns
    \/ StopJoinTimesOut
    \/ StopRaised
    \/ StopClear

\* What a worker thread does by itself, without the remote service: every
\* step but the end of the external call.
WorkerPromptStep(w) ==
    \/ WorkerExit(w)
    \/ WorkerEnter(w)
    \/ WorkerDequeue(w)
    \/ WorkerRelease(w)
    \/ WorkerInvoke(w)
    \/ WorkerRecordSuccess(w)
    \/ \E exc \in ClientErrors : WorkerRecordFailure(w, exc)
    \/ \E exc \in ClientErrors : WorkerRecordUnexpected(w, exc)

\* The queue and the lifecycle with the threads scheduled: the thread in
\* stop_queue_worker and the worker threads keep running; an external call
\* may never end.
\* A thread that holds queue_condition runs on and releases it, and a
\* thread that waits for the lock gets it at one of its releases, however
\* often other threads call ensure_queue_worker_running in between.
StopSpec ==
    /\ Init /\ [][Next]_vars
    /\ SF_vars(StopProgress)
    /\ WF_vars(EnsureWorker)
    /\ \A w \in Workers : SF_vars(WorkerPromptStep(w))

\* A request thread inside generate_audio_for_request, beside the other
\* callers of the queue, the reset and the worker.
FacadeNext ==
    \/ Enqueue
    \/ ResetQueue
    \/ EnsureRunning
    \/ EnsureTestAlive
    \/ EnsureClearFlag
    \/ EnsureCreate
    \/ EnsureStart
    \/ EnsureFinish
    \/ \E w \in Workers : WorkerStep(w)
    \/ GenEnsure
    \/ GenEnqueue
    \/ DeadlineElapses
    \/ GenWaitReturns
    \/ GenFinish

FacadeSpec == Init /\ [][FacadeNext]_vars

\* The service in operation: the worker is never stopped and the store is
\* never reset; worker threads are scheduled and every external call ends.
LiveNext ==
    \/ Enqueue
    \/ EnsureRunning
    \/ EnsureTestAlive
    \/ EnsureClearFlag
    \/ EnsureCreate
    \/ EnsureStart
    \/ EnsureFinish
    \/ \E w \in Workers : WorkerStep(w)
    \/ GenEnsure
    \/ GenEnqueue
    \/ DeadlineElapses
    \/ GenWaitReturns
    \/ GenFinish

LiveSpec ==
    /\ Init /\ [][LiveNext]_vars
    /\ WF_vars(EnsureWorker)
    /\ \A w \in Workers : SF_vars(WorkerStep(w))

\* A request thread inside create_generation_request, beside the other
\* callers of the queue and the worker; the store is never reset, so the
\* item that thread holds stays the stored one.
AsyncNext ==
    \/ Enqueue
    \/ EnsureRunning
    \/ EnsureTestAlive
    \/ EnsureClearFlag
    \/ EnsureCreate
    \/ EnsureStart
    \/ EnsureFinish
    \/ \E w \in Workers : WorkerStep(w)
    \/ CreateEnsure
    \/ CreateEnqueue
    \/ CreateReturn
    \/ CreateFinish

AsyncSpec == Init /\ [][AsyncNext]_vars

\* The worker thread with the external call spelled out: the except
\* clause that runs is the one that matches the exception raised.
ClientWorkerStep(w) ==
    \/ WorkerEnter(w)
    \/ WorkerDequeue(w)
    \/ WorkerRelease(w)
    \/ WorkerInvoke(w)
    \/ ClientSubmit(w)
    \/ ClientPoll(w)
    \/ ClientSleep(w)
    \/ ClientExtract(w)
    \/ ClientFetch(w)
    \/ WorkerRecordSuccess(w)
    \/ WorkerRecordFailure(w, xexc[w].type)
    \/ WorkerRecordUnexpected(w, xexc[w].type)

\* The queue in operation against the remote service: jobs are enqueued,
\* the worker is started and runs the client for each; worker threads are
\* scheduled and the remote answers every request.
ClientNext ==
    \/ Enqueue
    \/ EnsureRunning
    \/ EnsureTestAlive
    \/ EnsureClearFlag
    \/ EnsureCreate
    \/ EnsureStart
    \/ EnsureFinish
    \/ \E w \in Workers : ClientWorkerStep(w)

ClientSpec ==
    /\ Init /\ [][ClientNext]_vars
    /\ WF_vars(EnsureWorker)
    /\ \A w \in Workers : SF_vars(ClientWorkerStep(w))

\* One external call against a remote whose response to the submit is
\* fixed beforehand, for every shape of response: job 1 is generating and
\* the worker thread has begun the call for it.
SubmitInit ==
    /\ queue_items = [j \in {1} |-> GenerationQueueItem("generating", NoWav, NoError)]
    /\ queue_order = <<>>
    /\ queue_stop_event = FALSE
    /\ queue_worker_thread = 1
    /\ next_id = 1
    /\ wpc = [w \in Workers |-> IF w = 1 THEN "call" ELSE "unstarted"]
    /\ wcur = [w \in Workers |-> IF w = 1 THEN 1 ELSE NoJob]
    /\ spc = "idle"
    /\ starget = NoThread
    /\ sgen = {}
    /\ gpc = "idle"
    /\ gid = NoJob
    /\ gexpired = FALSE
    /\ gout = [kind |-> "none", wav |-> NoWav]
    /\ calls = <<1>>
    /\ cpc = "idle"
    /\ cid = NoJob
    /\ cout = [id |-> NoJob, status |-> "None"]
    /\ cstatus = "None"
    /\ epc = "idle"
    /\ apc = "idle"
    /\ xpc = [w \in Workers |-> "none"]
    /\ xtask = [w \in Workers |-> NoTask]
    /\ xlog = [w \in Workers |-> <<>>]
    /\ xexc = [w \in Workers |-> NoExc]
    /\ cause = [j \in JobIds |-> "none"]
    /\ lock_owner = NoThread
    /\ sresp \in SubmitResponses({TaskOf(n) : n \in JobIds})
    /\ presp = NoPollResponse
    /\ xpath = [w \in Workers |-> NoPath]
    /\ xrecord = [w \in Workers |-> NoRecord]
    /\ upc = "idle"
    /\ uid = NoJob
    /\ uout = "None"

SubmitNext ==
    \E w \in Workers :
        \/ ClientSubmitFixed(w)
        \/ ClientPoll(w)
        \/ ClientSleep(w)
        \/ ClientExtract(w)
        \/ ClientFetch(w)
        \/ WorkerRecordSuccess(w)
        \/ WorkerRecordFailure(w, xexc[w].type)
        \/ WorkerRecordUnexpected(w, xexc[w].type)

SubmitSpec == SubmitInit /\ [][SubmitNext]_vars

\* A request thread inside generate_audio_for_request while the worker is
\* stopped and the store reset under it.  Time passes, the request thread
\* and a thread that holds the lock are scheduled; a worker thread may
\* never be scheduled again and an external call may never end.
TermNext ==
    \/ ResetQueue
    \/ StopSet
    \/ StopNotify
    \/ StopTestHandle
    \/ StopBeginJoin
    \/ StopJoinReturns
    \/ StopJoinTimesOut
    \/ StopRaised
    \/ StopClear
    \/ \E w \in Workers : WorkerExit(w)
    \/ \E w \in Workers : WorkerStep(w)
    \/ GenEnsure
    \/ EnsureTestAlive
    \/ EnsureClearFlag
    \/ EnsureCreate
    \/ EnsureStart
    \/ GenEnqueue
    \/ DeadlineElapses
    \/ GenWaitReturns
    \/ GenFinish

TermSpec ==
    /\ Init /\ [][TermNext]_vars
    /\ WF_vars(DeadlineElapses)
    /\ WF_vars(GenWaitReturns)
    /\ WF_vars(EnsureWorker)
    /\ \A w \in Workers : WF_vars(WorkerDequeue(w))
    /\ \A w \in Workers : WF_vars(WorkerRelease(w))

\* A thread that waits without a deadline, beside the callers of the
\* queue, the reset and the worker.  The waiting thread and a thread that
\* holds the lock are scheduled.
WaitNext ==
    \/ Enqueue
    \/ ResetQueue
    \/ EnsureRunning
    \/ EnsureTestAlive
    \/ EnsureClearFlag
    \/ EnsureCreate
    \/ EnsureStart
    \/ EnsureFinish
    \/ \E w \in Workers : WorkerStep(w)
    \/ \E j \in JobIds : UWaitBegin(j)
    \/ UWaitInspect
    \/ UWaitFinish

WaitSpec ==
    /\ Init /\ [][WaitNext]_vars
    /\ SF_vars(UWaitInspect)
    /\ WF_vars(EnsureWorker)
    /\ \A w \in Workers : WF_vars(WorkerDequeue(w))
    /\ \A w \in Workers : WF_vars(WorkerRelease(w))

\* One external call against a remote that answers every poll with a
\* response fixed beforehand, for every shape of response: job 1 is
\* generating, the submit has returned its task_id and the poll loop begins.
PollInit ==
    /\ queue_items = [j \in {1} |-> GenerationQueueItem("generating", NoWav, NoError)]
    /\ queue_order = <<>>
    /\ queue_stop_event = FALSE
    /\ queue_worker_thread = 1
    /\ next_id = 1
    /\ wpc = [w \in Workers |-> IF w = 1 THEN "call" ELSE "unstarted"]
    /\ wcur = [w \in Workers |-> IF w = 1 THEN 1 ELSE NoJob]
    /\ spc = "idle"
    /\ starget = NoThread
    /\ sgen = {}
    /\ gpc = "idle"
    /\ gid = NoJob
    /\ gexpired = FALSE
    /\ gout = [kind |-> "none", wav |-> NoWav]
    /\ calls = <<1>>
    /\ cpc = "idle"
    /\ cid = NoJob
    /\ cout = [id |-> NoJob, status |-> "None"]
    /\ cstatus = "None"
    /\ epc = "idle"
    /\ apc = "idle"
    /\ xpc = [w \in Workers |-> IF w = 1 THEN "poll" ELSE "none"]
    /\ xtask = [w \in Workers |-> IF w = 1 THEN TaskOf(1) ELSE NoTask]
    /\ xlog = [w \in Workers |-> IF w = 1 THEN <<<<"submit", TaskOf(1)>>>> ELSE <<>>]
    /\ xexc = [w \in Workers |-> NoExc]
    /\ cause = [j \in JobIds |-> "none"]
    /\ lock_owner = NoThread
    /\ sresp = NoResponse
    /\ presp \in PollResponseValues(ResultValues)
    /\ xpath = [w \in Workers |-> NoPath]
    /\ xrecord = [w \in Workers |-> NoRecord]
    /\ upc = "idle"
    /\ uid = NoJob
    /\ uout = "None"

PollNext ==
    \E w \in Workers :
        \/ ClientPollFixed(w)
        \/ ClientSleep(w)
        \/ ClientExtract(w)
        \/ ClientFetch(w)
        \/ WorkerRecordSuccess(w)
        \/ WorkerRecordFailure(w, xexc[w].type)
        \/ WorkerRecordUnexpected(w, xexc[w].type)

PollSpec == PollInit /\ [][PollNext]_vars

\* ------------------------------------------------------------ the claims

\* The stored jobs whose status is `generating`.
GeneratingJobs == {j \in DOMAIN queue_items : queue_items[j].status = "generating"}

\* C1: in every reachable state at most one stored job has status
\* `generating`.  Refuted: a stop whose join timed out followed by an ensure
\* leaves two worker threads, and each marks a job generating.
C1_AtMostOneGenerating == Cardinality(GeneratingJobs) <= 1

\* C2: at any instant at most one thread is executing the _queue_worker
\* loop.  Refuted: stop_queue_worker drops the handle of a worker that is
\* still inside an external call, and the next ensure starts a second one
\* while the first is alive.
C2_WorkerSingleton == Cardinality(LiveWorkers) <= 1

\* One step of the store, seen from every job id: a job enters the store
\* queued and under a fresh id; the status of a stored job stays, or goes
\* from queued to generating, or from generating to completed or failed.
StatusStep ==
    \A j \in JobIds :
        /\ (~Stored(j) /\ j \in DOMAIN queue_items') =>
               /\ j > next_id
               /\ queue_items'[j].status = "queued"
        /\ (Stored(j) /\ j \in DOMAIN queue_items') =>
               \/ queue_items'[j].status = queue_items[j].status
               \/ /\ queue_items[j].status = "queued"
                  /\ queue_items'[j].status = "generating"
               \/ /\ queue_items[j].status = "generating"
                  /\ IsTerminal(queue_items'[j].status)

\* C3: the statuses a job takes over its lifetime are a prefix of queued,
\* generating, (completed | failed): it never returns to queued, never goes
\* from queued to a terminal status, never leaves generating for anything
\* but completed or failed, and an id that left the store never comes back.
C3_StatusForwardOnly == [][StatusStep]_vars

C3_Witness ==
    \E j, k \in DOMAIN queue_items :
        /\ queue_items[j].status = "completed"
        /\ queue_items[k].status = "failed"

\* C4: jobs are dequeued in FIFO order: no job has been taken by a worker
\* while a job enqueued before it is still queued, and the external client
\* is invoked for the jobs in the order they were enqueued.  Refuted: with
\* two worker threads alive (C2) the second can invoke the client for a
\* later job before the first has invoked it for an earlier job.
C4_FifoOrder ==
    /\ \A a, b \in DOMAIN queue_items :
           (a < b /\ queue_items[b].status # "queued") => queue_items[a].status # "queued"
    /\ \A i, k \in 1..Len(calls) : i < k => calls[i] < calls[k]

\* C5: a job never is terminal while a job enqueued before it is still
\* queued or generating, and the external calls of two jobs never overlap.
\* Refuted: with two worker threads alive (C2) the call for a later job
\* runs, and can end, while the call for an earlier job is in progress.
C5_TerminalInOrder ==
    /\ \A a, b \in DOMAIN queue_items :
           (a < b /\ IsTerminal(queue_items[b].status)) => IsTerminal(queue_items[a].status)
    /\ \A w, v \in Workers : (wpc[w] = "call" /\ wpc[v] = "call") => w = v

\* One step of the worker threads: a worker whose external call raised goes
\* back to the top of its loop, marks the job it holds (if still stored)
\* failed and touches neither the queue nor any other job; a worker whose
\* call returned marks its own job completed; no worker thread ends.
RecordStep ==
    \A w \in Workers :
        /\ (wpc[w] = "raised" /\ wpc'[w] # "raised") =>
               /\ wpc'[w] = "loop"
               /\ Stored(wcur[w]) => queue_items'[wcur[w]].status = "failed"
               /\ queue_order' = queue_order
               /\ DOMAIN queue_items' = DOMAIN queue_items
               /\ \A k \in DOMAIN queue_items \ {wcur[w]} : queue_items'[k] = queue_items[k]
        /\ (wpc[w] = "else" /\ wpc'[w] # "else") =>
               /\ wpc'[w] = "loop"
               /\ Stored(wcur[w]) => queue_items'[wcur[w]].status = "completed"
        /\ IsAlive(w) => IsAlive(w)'

\* C6: a failure of one job never blocks the queue.  If the external call
\* for job A raises (whichever except clause catches it) the worker thread
\* stays alive and A ends failed; a job B enqueued after A is dequeued
\* afterwards and reaches a terminal status, decided by B's own call.
C6_FailureDoesNotBlockQueue ==
    /\ [][RecordStep]_vars
    /\ \A a, b \in JobIds :
           (a < b /\ Stored(a) /\ Stored(b) /\ queue_items[a].status = "failed")
               ~> (Stored(b) /\ IsTerminal(queue_items[b].status))

C6_Witness ==
    \E a, b \in DOMAIN queue_items :
        /\ a < b
        /\ queue_items[a].status = "failed"
        /\ queue_items[b].status = "completed"
        /\ LiveWorkers # {}

\* C7: queue liveness.  With a worker started, no stop and no reset, fair
\* scheduling of the worker thread and every external call returning or
\* raising, every stored job eventually is completed or failed.
C7_QueueLiveness ==
    \A j \in JobIds :
        (Stored(j) /\ LiveWorkers # {})
            ~> (Stored(j) /\ IsTerminal(queue_items[j].status))

C7_Witness ==
    /\ LiveWorkers # {}
    /\ next_id >= 2
    /\ \A j \in 1..next_id : Stored(j) /\ IsTerminal(queue_items[j].status)

\* C8: in every reachable state and for every stored job, wav_bytes is set
\* if and only if the status is completed, and error_message is set if and
\* only if the status is failed.
C8_ResultAndErrorMatchStatus ==
    \A j \in DOMAIN queue_items :
        /\ (queue_items[j].wav_bytes # NoWav) <=> (queue_items[j].status = "completed")
        /\ (queue_items[j].error_message # NoError) <=> (queue_items[j].status = "failed")

C8_Witness ==
    \E j, k \in DOMAIN queue_items :
        /\ queue_items[j].status = "completed"
        /\ queue_items[j].wav_bytes = WavOf(j)
        /\ queue_items[k].status = "failed"
        /\ queue_items[k].error_message = GENERATION_FAILED_MESSAGE
        /\ queue_items[k].wav_bytes = NoWav

\* The step in which the wait returns for a job that is stored and not
\* terminal: the deadline has passed, the outcome is the timeout error and
\* the store and the queue are as before.
TimeoutStep ==
    (gpc = "wait" /\ gpc' = "done" /\ Stored(gid)
        /\ ~IsTerminal(queue_items[gid].status)) =>
            /\ gexpired
            /\ gout'.kind = "timeout"
            /\ queue_items' = queue_items
            /\ queue_order' = queue_order

\* The waiter's deadline has passed and its job is still queued or generating.
PendingAtDeadline ==
    /\ gpc = "wait"
    /\ gexpired
    /\ Stored(gid)
    /\ ~IsTerminal(queue_items[gid].status)

\* C9: if the deadline of the synchronous wait has passed with the job not
\* yet terminal, the wait returns None and generate_audio_for_request raises
\* AudioGenerationTimeoutError; the wait changes nothing in the store (the
\* job keeps its status and its place in queue_order); and the worker still
\* takes the job to a terminal status later.
C9_TimeoutLeavesJobUntouched ==
    /\ [](PendingAtDeadline => WaitForTerminalStatus(gid, gexpired).ret = "none")
    /\ [][TimeoutStep]_vars
    /\ \A j \in JobIds :
           (gpc = "done" /\ gout.kind = "timeout" /\ gid = j /\ Stored(j))
               ~> (Stored(j) /\ IsTerminal(queue_items[j].status))

C9_Witness ==
    /\ gpc = "done"
    /\ gout.kind = "timeout"
    /\ Stored(gid)
    /\ queue_items[gid].status = "queued"
    /\ \E i \in 1..Len(queue_order) : queue_order[i] = gid

\* The step in which generate_audio_for_request ends: its outcome against
\* the job it enqueued, as the store holds it at that moment.
OutcomeStep ==
    (gpc = "wait" /\ gpc' = "done") =>
        /\ gout'.kind \in {"bytes", "failed", "timeout"}
        /\ (gout'.kind = "bytes") <=>
               (Stored(gid) /\ queue_items[gid].status = "completed")
        /\ (gout'.kind = "bytes") =>
               (gout'.wav = queue_items[gid].wav_bytes /\ gout'.wav # NoWav)
        /\ (gout'.kind = "failed") <=>
               (Stored(gid) /\ queue_items[gid].status = "failed")
        /\ (Stored(gid) /\ ~IsTerminal(queue_items[gid].status) /\ gexpired) =>
               gout'.kind = "timeout"

\* C10: generate_audio_for_request ends in exactly one of three outcomes,
\* decided by the job it enqueued: it returns the job's wav_bytes exactly
\* when the job is observed completed, raises AudioGenerationFailedError
\* exactly when it is observed failed, and raises
\* AudioGenerationTimeoutError when the deadline has passed with the job
\* still queued or generating.
C10_ThreeOutcomes == [][OutcomeStep]_vars

C10_Witness ==
    /\ gpc = "done"
    /\ gout.kind = "bytes"
    /\ gout.wav = WavOf(gid)
    /\ gexpired

\* C11: get_generation_request_audio(id) maps the stored state to exactly
\* one outcome: not found exactly when the id is not in the store, not
\* ready exactly when the job is queued or generating, failed exactly when
\* it is failed, and the stored wav_bytes exactly when it is completed.
C11_AudioOutcomeByStatus ==
    \A j \in JobIds :
        /\ GetGenerationRequestAudio(j).kind \in {"not_found", "not_ready", "failed", "bytes"}
        /\ (GetGenerationRequestAudio(j).kind = "not_found") <=> ~Stored(j)
        /\ Stored(j) =>
               /\ (GetGenerationRequestAudio(j).kind = "not_ready")
                      <=> (queue_items[j].status \in {"queued", "generating"})
               /\ (GetGenerationRequestAudio(j).kind = "failed")
                      <=> (queue_items[j].status = "failed")
               /\ (GetGenerationRequestAudio(j).kind = "bytes")
                      <=> (queue_items[j].status = "completed")
               /\ (GetGenerationRequestAudio(j).kind = "bytes") =>
                      /\ GetGenerationRequestAudio(j).wav = queue_items[j].wav_bytes
                      /\ GetGenerationRequestAudio(j).wav # NoWav

C11_Witness ==
    /\ GetGenerationRequestAudio(1).kind = "bytes"
    /\ GetGenerationRequestAudio(1).wav = WavOf(1)
    /\ GetGenerationRequestAudio(2).kind = "failed"
    /\ GetGenerationRequestAudio(3).kind = "not_ready"

\* C12: get_generation_request_status(id) raises QueueItemNotFoundError
\* exactly when the id is not in the store; otherwise it returns that id,
\* the job's stored status (queued, generating, completed or failed) and an
\* error that is non-null exactly when the returned status is failed.
C12_StatusOfStoredJob ==
    \A j \in JobIds :
        /\ (GetGenerationRequestStatus(j).kind = "not_found") <=> ~Stored(j)
        /\ Stored(j) =>
               /\ GetGenerationRequestStatus(j).kind = "dict"
               /\ GetGenerationRequestStatus(j).id = j
               /\ GetGenerationRequestStatus(j).status = queue_items[j].status
               /\ GetGenerationRequestStatus(j).status
                      \in {"queued", "generating", "completed", "failed"}
               /\ (GetGenerationRequestStatus(j).error # NoError)
                      <=> (GetGenerationRequestStatus(j).status = "failed")

C12_Witness ==
    /\ next_id >= 3
    /\ GetGenerationRequestStatus(1).kind = "not_found"
    /\ GetGenerationRequestStatus(2).status = "failed"
    /\ GetGenerationRequestStatus(2).error = GENERATION_FAILED_MESSAGE
    /\ GetGenerationRequestStatus(3).status = "generating"
    /\ GetGenerationRequestStatus(3).error = NoError

\* C13: create_generation_request returns the id of the job it enqueued
\* and status `queued`, for every interleaving of the call with the worker
\* thread.  Refuted: the status is read from the shared item after the lock
\* is released, so a worker that takes the job first makes the call return
\* `generating` (or `completed`, or `failed`).
C13_CreateReturnsQueued ==
    cpc = "done" => (cout.id = cid /\ cout.status = "queued")

\* The log of a call up to the k-th pending response and the sleep after it.
RECURSIVE PendingRounds(_, _)
PendingRounds(task, k) ==
    IF k = 0 THEN <<>>
    ELSE PendingRounds(task, k - 1) \o <<<<"poll", task>>, <<"status", 0>>, <<"sleep">>>>

\* The statuses a call has received are k times 0 and then 1.
ZerosThenOne(resp) ==
    /\ resp # <<>>
    /\ resp[Len(resp)][2] = 1
    /\ \A i \in 1..(Len(resp) - 1) : resp[i][2] = 0

\* A call's log without its fetch.
UpToFetch(log) == SelectSeq(log, LAMBDA e : e[1] # "fetch")

\* C14: if the poll responses are k times status 0 followed by status 1,
\* with k < MAX_POLL_ATTEMPTS, poll_until_complete issues exactly k+1 poll
\* requests, each carrying the task id submit returned, sleeps exactly k
\* times, once after each pending response, and returns on the response
\* with status 1 (the call goes on to the path extraction).
C14_PollUntilDone ==
    \A w \in Workers :
        (/\ ZerosThenOne(PollResponses(xlog[w]))
         /\ Len(PollResponses(xlog[w])) - 1 < MAX_POLL_ATTEMPTS) =>
            /\ UpToFetch(xlog[w]) =
                   <<xlog[w][1]>>
                     \o PendingRounds(xlog[w][1][2], Len(PollResponses(xlog[w])) - 1)
                     \o <<<<"poll", xlog[w][1][2]>>, <<"status", 1>>>>
            /\ Len(PollRequests(xlog[w])) = Len(PollResponses(xlog[w]))
            /\ Len(Sleeps(xlog[w])) = Len(PollResponses(xlog[w])) - 1
            /\ xpc[w] \notin {"poll", "sleep"}
            /\ xexc[w] \notin {TaskFailed, PollTimedOut}

C14_Witness ==
    \E w \in Workers :
        /\ xpc[w] = "extract"
        /\ Len(PollRequests(xlog[w])) = MAX_POLL_ATTEMPTS
        /\ Len(Sleeps(xlog[w])) = MAX_POLL_ATTEMPTS - 1
        /\ ZerosThenOne(PollResponses(xlog[w]))

\* C15: if a poll response reports status 2, poll_until_complete raises at
\* once: that response is the last entry of the call's log (no further
\* poll request, no sleep, no fetch), the exception is the task failure,
\* and the job the call was made for ends failed.
C15_RemoteFailureStopsPolling ==
    /\ [](\A w \in Workers : \A i \in 1..Len(xlog[w]) :
             xlog[w][i] = <<"status", 2>> =>
                 /\ i = Len(xlog[w])
                 /\ Fetches(xlog[w]) = <<>>
                 /\ xpc[w] = "none"
                 /\ xexc[w] = TaskFailed)
    /\ [](\A j \in DOMAIN queue_items :
             cause[j] = "remote_failure" =>
                 \/ queue_items[j].status = "failed"
                 \/ /\ queue_items[j].status = "generating"
                    /\ \E w \in Workers : wcur[w] = j /\ wpc[w] = "raised")
    /\ \A j \in JobIds :
           (Stored(j) /\ cause[j] = "remote_failure")
               ~> (Stored(j) /\ queue_items[j].status = "failed")

C15_Witness ==
    \E w \in Workers : \E j \in DOMAIN queue_items :
        /\ xlog[w] = <<<<"submit", TaskOf(j)>>, <<"poll", TaskOf(j)>>, <<"status", 2>>>>
        /\ cause[j] = "remote_failure"
        /\ queue_items[j].status = "failed"

\* C16: every poll status other than 0 and 1 (2, and also 3) is treated as
\* a remote failure: the response that reports it is the last entry of the
\* call's log and the call has raised the task failure.  Refuted: only
\* status 2 raises; on status 3 the loop sleeps and polls again.
C16_OtherStatusesFail ==
    \A w \in Workers : \A i \in 1..Len(xlog[w]) :
        (xlog[w][i][1] = "status" /\ xlog[w][i][2] \notin {0, 1}) =>
            /\ i = Len(xlog[w])
            /\ xexc[w] = TaskFailed

\* C17: polling is bounded.  A call issues at most MAX_POLL_ATTEMPTS poll
\* requests; when every one of them was answered pending the call has
\* stopped polling and raises after its last sleep, and it raises the
\* exhaustion only then; a worker that is polling eventually is not.
C17_PollingBounded ==
    /\ [](\A w \in Workers :
             /\ Len(PollRequests(xlog[w])) <= MAX_POLL_ATTEMPTS
             /\ (/\ Len(PollResponses(xlog[w])) = MAX_POLL_ATTEMPTS
                 /\ \A i \in 1..MAX_POLL_ATTEMPTS :
                        PollResponses(xlog[w])[i][2] \notin {1, 2}) =>
                    \/ xpc[w] = "sleep"
                    \/ xpc[w] = "none" /\ xexc[w] = PollTimedOut
             /\ xexc[w] = PollTimedOut =>
                    /\ Len(PollRequests(xlog[w])) = MAX_POLL_ATTEMPTS
                    /\ Len(Sleeps(xlog[w])) = MAX_POLL_ATTEMPTS
                    /\ xpc[w] = "none")
    /\ \A w \in Workers :
           (xpc[w] \in {"poll", "sleep"}) ~> (xpc[w] = "none" /\ wpc[w] = "loop")

C17_Witness ==
    \E w \in Workers :
        /\ xexc[w] = PollTimedOut
        /\ wpc[w] = "loop"
        /\ Len(PollRequests(xlog[w])) = MAX_POLL_ATTEMPTS

\* C18: exhausting the poll budget is reported as a timeout that can be
\* told from a generation failure (remote-reported or transport) in what
\* the worker records and in what the facades report: a job that failed by
\* exhaustion and a job that failed otherwise differ in their stored record
\* and in the status, audio or synchronous outcome the facades give.
\* Refuted: the client raises RuntimeError for both, the worker writes the
\* same record for both and the facades report the same failure.
C18_PollTimeoutDistinct ==
    \A a, b \in DOMAIN queue_items :
        (/\ cause[a] = "poll_exhausted"
         /\ cause[b] \in {"remote_failure", "transport"}
         /\ queue_items[a].status = "failed"
         /\ queue_items[b].status = "failed") =>
            /\ queue_items[a] # queue_items[b]
            /\ \/ GetGenerationRequestStatus(a).error # GetGenerationRequestStatus(b).error
               \/ GetGenerationRequestAudio(a) # GetGenerationRequestAudio(b)
               \/ GenerateOutcome([ret |-> "item", item |-> queue_items[a]])
                      # GenerateOutcome([ret |-> "item", item |-> queue_items[b]])

\* C19: whatever exception the external client raises, at submit, poll,
\* path extraction or fetch, recognized or not, the job ends failed with
\* error_message exactly "Audio generation failed" and wav_bytes null; the
\* text of the exception is neither stored on the job nor in what the
\* status, audio and synchronous facades report for it.
C19_AnyExceptionGenericFailure ==
    /\ [](\A j \in DOMAIN queue_items :
             cause[j] # "none" =>
                 \/ /\ queue_items[j] =
                           GenerationQueueItem("failed", NoWav, GENERATION_FAILED_MESSAGE)
                    /\ \A w \in Workers : queue_items[j].error_message # xexc[w].msg
                    /\ GetGenerationRequestStatus(j).error = GENERATION_FAILED_MESSAGE
                    /\ GetGenerationRequestAudio(j) = [kind |-> "failed", wav |-> NoWav]
                    /\ GenerateOutcome([ret |-> "item", item |-> queue_items[j]])
                           = [kind |-> "failed", wav |-> NoWav]
                 \/ /\ queue_items[j].status = "generating"
                    /\ \E w \in Workers : wcur[w] = j /\ wpc[w] = "raised")
    /\ \A j \in JobIds :
           (Stored(j) /\ cause[j] # "none")
               ~> (Stored(j) /\ queue_items[j].status = "failed")

C19_Witness ==
    \E w \in Workers : \E a, b \in DOMAIN queue_items :
        /\ wpc[w] = "loop"
        /\ cause[a] = "poll_exhausted"
        /\ queue_items[a].status = "failed"
        /\ cause[b] = "transport"
        /\ queue_items[b].status = "failed"
        /\ calls = <<a, b>>
        /\ xexc[w] = Exc("Exception", "transport detail")
        /\ xlog[w][Len(xlog[w])] = <<"status", 1>>

\* The worker threads started so far.
StartedWorkers == {w \in Workers : wpc[w] \notin {"unstarted", "created"}}

\* A step taken while the thread the handle names is alive creates and
\* starts no thread and leaves the stop flag and the handle as they are;
\* from the step in which a facade enters ensure_queue_worker_running to
\* the step in which it leaves it, the store and the queue stay as they
\* are.
EnsureStep ==
    /\ (queue_worker_thread # NoThread /\ IsAlive(queue_worker_thread)) =>
           /\ queue_stop_event' = queue_stop_event
           /\ queue_worker_thread' = queue_worker_thread
           /\ \A w \in Workers : wpc[w] = "unstarted" => wpc'[w] = "unstarted"
           /\ epc' \in {"idle", "alive"}
    /\ (gpc = "ensure" \/ gpc' = "ensure") =>
           /\ queue_items' = queue_items
           /\ queue_order' = queue_order

\* C20: ensure_queue_worker_running is idempotent.  Called any number of
\* times by the request threads, with no stop_queue_worker in between, it
\* starts exactly one worker thread: never more than one thread is started,
\* one is running once a call has returned, and a call made while the
\* worker is alive starts nothing and changes neither the stop flag nor
\* the store nor the queue.
C20_EnsureIdempotent ==
    /\ [](/\ Cardinality(StartedWorkers) <= 1
          /\ gpc \in {"enqueue", "wait", "done"} =>
                 /\ Cardinality(StartedWorkers) = 1
                 /\ queue_worker_thread \in LiveWorkers
                 /\ ~queue_stop_event)
    /\ [][EnsureStep]_vars

C20_Witness ==
    /\ gpc = "enqueue"
    /\ Len(calls) >= 2
    /\ Cardinality(StartedWorkers) = 1
    /\ \E w \in Workers : wpc[w] = "call" /\ queue_worker_thread = w

\* C21: stop_queue_worker always returns: it waits for the worker no
\* longer than the join timeout, also when the worker is inside an external
\* call that never ends; when it returns the stop flag is set and the
\* module holds no worker handle.
C21_StopReturns ==
    /\ [][(spc = "clear" /\ spc' = "idle") =>
             (queue_stop_event' /\ queue_worker_thread' = NoThread)]_vars
    /\ (spc # "idle") ~> (spc = "idle")
    /\ [](spc # "raised")

\* One step, seen from every worker thread: a thread ends only from the top
\* of its loop; a thread whose call has returned or raised records the
\* outcome on the job it holds, if the job is still stored; a step of
\* stop_queue_worker changes no job and no worker's position.
NoAbortStep ==
    /\ \A w \in Workers :
           /\ (wpc'[w] = "dead" /\ wpc[w] # "dead") => wpc[w] = "loop"
           /\ (wpc[w] = "else" /\ wpc'[w] # "else" /\ Stored(wcur[w])) =>
                  queue_items'[wcur[w]] =
                      GenerationQueueItem("completed", WavOf(wcur[w]), NoError)
           /\ (wpc[w] = "raised" /\ wpc'[w] # "raised" /\ Stored(wcur[w])) =>
                  queue_items'[wcur[w]] =
                      GenerationQueueItem("failed", NoWav, GENERATION_FAILED_MESSAGE)
    /\ (spc' # spc) => (queue_items' = queue_items /\ wpc' = wpc /\ wcur' = wcur)

\* C22: there is no mid-flight abort.  A job that is generating when
\* stop_queue_worker is called stays in the hands of a live worker thread;
\* once its external call has returned or raised the outcome is recorded
\* (completed with the bytes, or failed), whether or not the stop flag is
\* set, and only after that does the worker thread end.
C22_NoMidFlightAbort ==
    /\ [](\A j \in DOMAIN queue_items :
             queue_items[j].status = "generating" =>
                 \E w \in LiveWorkers :
                     wcur[w] = j /\ wpc[w] \in {"marked", "invoke", "call", "else", "raised"})
    /\ [][NoAbortStep]_vars
    /\ \A w \in Workers :
           (wpc[w] \in {"else", "raised"}) ~> (wpc[w] \in {"loop", "dead"})

C22_Witness ==
    \E w \in Workers : \E j \in DOMAIN queue_items :
        /\ j \in sgen
        /\ wpc[w] = "dead"
        /\ spc = "clear"
        /\ starget = w
        /\ queue_stop_event
        /\ calls = <<j>>
        /\ queue_items[j] = GenerationQueueItem("completed", WavOf(j), NoError)

\* The `file` of the first element, in list order, that is an object with a
\* non-empty string under `file`; NoPath when there is none.
RECURSIVE FirstFile(_)
FirstFile(items) ==
    IF items = <<>> THEN NoPath
    ELSE IF Head(items).kind = "dict" /\ Head(items).file.kind = "string"
         THEN Head(items).file.val
         ELSE FirstFile(Tail(items))

\* The path a result yields: from a list, from a single object, or none.
CandidatePath(result) ==
    IF result.kind # "string" THEN NoPath
    ELSE IF result.parsed.kind = "list" THEN FirstFile(result.parsed.items)
         ELSE IF result.parsed.kind = "dict" /\ result.parsed.file.kind = "string"
              THEN result.parsed.file.val
              ELSE NoPath

\* The log of one external call is well ordered: it opens with the submit
\* and holds no other; a submit that failed is the whole log; every poll
\* carries the task id the submit returned; a fetch is the last entry,
\* comes directly after a poll response of status 1 and names a file path;
\* an exception raised after a fetch is the fetch's.
OrderedLog(log, exc) ==
    /\ log[1][1] = "submit"
    /\ \A i \in 2..Len(log) : log[i][1] # "submit"
    /\ Len(log[1]) = 1 => Len(log) = 1
    /\ Len(log) > 1 => log[2][1] = "poll"
    /\ \A i \in 1..Len(log) :
           log[i][1] = "poll" => (Len(log[1]) = 2 /\ log[i][2] = log[1][2])
    /\ \A i \in 1..Len(log) :
           log[i][1] = "fetch" =>
               /\ i = Len(log)
               /\ i > 2
               /\ log[i - 1] = <<"status", 1>>
               /\ log[i][2] \in Paths
               /\ exc # NoExc => exc \in FetchErrors

\* One step of the client, seen from every worker thread.  The extraction
\* runs on the record that reported status 1: it goes on to the fetch with
\* the path that record yields, or, when the record yields none, the call
\* ends there with an exception and no request is added.  A fetch is added
\* to the log only by the step after the extraction, and it is the fetch
\* of the path extracted.
FetchStep ==
    \A w \in Workers :
        /\ (xpc[w] = "extract" /\ xpc'[w] # "extract") =>
               /\ xrecord[w].status = [kind |-> "int", val |-> 1]
               /\ xlog[w][Len(xlog[w])] = <<"status", 1>>
               /\ xlog'[w] = xlog[w]
               /\ IF CandidatePath(xrecord[w].result) # NoPath
                  THEN /\ xpc'[w] = "fetch"
                       /\ xpath'[w] = CandidatePath(xrecord[w].result)
                       /\ xexc'[w] = xexc[w]
                  ELSE /\ xpc'[w] = "none"
                       /\ wpc'[w] = "raised"
                       /\ xexc'[w] \in ExtractErrors
        /\ (xlog'[w] # xlog[w] /\ Fetches(xlog'[w]) # <<>>) =>
               /\ xpc[w] = "fetch"
               /\ xpc'[w] = "none"
               /\ xlog'[w] = Append(xlog[w], <<"fetch", xpath[w]>>)

\* C23: for each job the external client issues its requests in the order
\* submit, then one or more polls carrying the task id the submit returned,
\* then exactly one fetch, of the path extracted from the done record; no
\* poll is issued when the submit fails, and no fetch unless a poll
\* returned status 1 and its record yields a valid path.
C23_SubmitPollFetchOrder ==
    /\ [](\A w \in Workers :
             xlog[w] # <<>> =>
                 /\ OrderedLog(xlog[w], xexc[w])
                 /\ wpc[w] = "else" =>
                        /\ Len(Fetches(xlog[w])) = 1
                        /\ Len(PollRequests(xlog[w])) >= 1
                 /\ xpc[w] = "fetch" =>
                        /\ Fetches(xlog[w]) = <<>>
                        /\ xlog[w][Len(xlog[w])] = <<"status", 1>>
                        /\ xpath[w] \in Paths
                        /\ xpath[w] = CandidatePath(xrecord[w].result))
    /\ [][FetchStep]_vars

C23_Witness ==
    \E w \in Workers :
        /\ wpc[w] = "else"
        /\ Len(PollRequests(xlog[w])) >= 2
        /\ xlog[w][Len(xlog[w])] = <<"fetch", "b.wav">>
        /\ xpath[w] = "b.wav"

\* C24: the worker never holds queue_condition while an external call is in
\* progress.  A worker thread holds the lock only from the tests before the
\* pop to the end of the block that marks the job generating; during the call, and until it
\* records the outcome, the lock is not its own, so that an enqueue and a
\* reset (and the snapshots behind status and result) can run while the
\* job is generating.
C24_CallOutsideLock ==
    /\ [](\A w \in Workers :
             /\ wpc[w] \in {"invoke", "call", "else", "raised"} => lock_owner # w
             /\ lock_owner = w => wpc[w] \in {"pop", "marked"})
    /\ []((lock_owner = NoThread) =>
             /\ CanAcquire(NoThread)
             /\ ENABLED ResetQueue
             /\ next_id < MaxJobs => ENABLED Enqueue)
    /\ []((\E w \in Workers : wpc[w] = "call") /\ (\A w \in Workers : wpc[w] \notin {"pop", "marked"})
             => lock_owner \notin Workers)
    /\ [][\A w \in Workers :
             (wpc[w] = "call" /\ wpc'[w] # "call") =>
                 (lock_owner' = lock_owner /\ queue_items' = queue_items)]_vars

C24_Witness ==
    \E w \in Workers :
        /\ wpc[w] = "call"
        /\ lock_owner = NoThread
        /\ ~Stored(wcur[w])
        /\ \E j \in DOMAIN queue_items : queue_items[j].status = "queued"

\* The ids of a sequence.
Range(seq) == {seq[i] : i \in 1..Len(seq)}

\* No id occurs twice in the sequence.
NoDuplicates(seq) ==
    \A i \in 1..Len(seq) : \A k \in 1..Len(seq) : seq[i] = seq[k] => i = k

\* C25: in every reachable state queue_order holds no id twice, every id in
\* it is stored with status `queued`, and every stored job with status
\* `queued` has its id in it; the step that stores a new job appends its id
\* to the tail of the queue.
C25_QueueMirrorsQueuedJobs ==
    /\ [](/\ NoDuplicates(queue_order)
          /\ \A j \in Range(queue_order) :
                 Stored(j) /\ queue_items[j].status = "queued"
          /\ \A j \in DOMAIN queue_items :
                 queue_items[j].status = "queued" => j \in Range(queue_order))
    /\ [][\A j \in JobIds :
             (~Stored(j) /\ j \in DOMAIN queue_items') =>
                 /\ queue_items'[j] = GenerationQueueItem("queued", NoWav, NoError)
                 /\ queue_order' = Append(queue_order, j)
                 /\ \A i \in DOMAIN queue_items : queue_items'[i] = queue_items[i]]_vars

C25_Witness ==
    /\ queue_order = <<2, 3>>
    /\ Stored(1)
    /\ queue_items[1].status = "generating"
    /\ queue_items[2].status = "queued"
    /\ queue_items[3].status = "queued"

\* C26: terminal jobs are immutable.  Once a stored job is completed or
\* failed its status, wav_bytes and error_message are the same in every
\* later state in which it is stored; a job becomes generating only from
\* queued, and no id is handed to the external client twice.
C26_TerminalJobsImmutable ==
    /\ [][\A j \in DOMAIN queue_items :
             /\ (IsTerminal(queue_items[j].status) /\ j \in DOMAIN queue_items') =>
                    queue_items'[j] = queue_items[j]
             /\ (j \in DOMAIN queue_items'
                   /\ queue_items'[j].status = "generating"
                   /\ queue_items[j].status # "generating") =>
                    (queue_items[j].status = "queued" /\ Head(queue_order) = j)]_vars
    /\ [](NoDuplicates(calls))
    /\ [](\A j \in DOMAIN queue_items :
             IsTerminal(queue_items[j].status) => j \notin Range(queue_order))

C26_Witness ==
    /\ Stored(1) /\ queue_items[1].status = "failed"
    /\ Stored(2) /\ queue_items[2].status = "completed"
    /\ Stored(3) /\ queue_items[3].status = "generating"
    /\ calls = <<1, 2, 3>>

\* C27: a worker thread that is at its wait predicate while the stop flag
\* is set leaves the loop without dequeuing, also when the queue is not
\* empty: the only step it takes ends the thread, and that step leaves the
\* store and the queue as they are, so the jobs in the queue keep status
\* `queued` and their order.  (A thread that has passed the test of line
\* 110 is past its wait predicate: it is at "pop", and it pops whatever
\* the flag becomes.)
C27_StopBeatsQueue ==
    /\ [][\A w \in Workers :
             (wpc[w] = "loop" /\ queue_stop_event /\ wpc'[w] # "loop") =>
                 /\ wpc'[w] = "dead"
                 /\ wcur'[w] = wcur[w]
                 /\ queue_items' = queue_items
                 /\ queue_order' = queue_order
                 /\ calls' = calls]_vars
    /\ [](\A w \in Workers :
             (wpc[w] = "loop" /\ queue_stop_event) => ~ENABLED WorkerEnter(w))

C27_Witness ==
    \E w \in Workers :
        /\ wpc[w] = "dead"
        /\ queue_stop_event
        /\ Len(queue_order) >= 2
        /\ \A j \in Range(queue_order) : queue_items[j].status = "queued"
        /\ \A v \in Workers : wpc[v] \in {"dead", "unstarted"}

\* C28: the write of an outcome for a job that a reset has removed from the
\* store is a no-op.  The step in which a worker thread records the
\* completion or the failure of a job that is no longer stored leaves
\* queue_items and queue_order unchanged (the job is not created again),
\* wakes a thread asleep in queue_condition.wait() (waiters are still
\* notified) and takes the worker back to the top of its loop, where it
\* can dequeue the next job.
C28_RecordAfterResetIsNoOp ==
    /\ [][\A w \in Workers :
             (wpc[w] \in {"else", "raised"} /\ wpc'[w] # wpc[w] /\ ~Stored(wcur[w])) =>
                 /\ queue_items' = queue_items
                 /\ queue_order' = queue_order
                 /\ upc = "asleep" => upc' = "woken"
                 /\ upc # "asleep" => upc' = upc
                 /\ wpc'[w] = "loop"
                 /\ wcur'[w] = NoJob]_vars
    /\ [](\A w \in Workers :
             (wpc[w] = "else" /\ lock_owner = NoThread) => ENABLED WorkerRecordSuccess(w))
    /\ [](\A j \in JobIds \ DOMAIN queue_items : j <= next_id => j \notin Range(queue_order))

\* The waiter sleeps on job 2, queued after the reset that removed job 1;
\* nothing but the worker's write for job 1 has called notify_all since.
C28_Witness ==
    \E w \in Workers :
        /\ wpc[w] = "loop"
        /\ wcur[w] = NoJob
        /\ calls = <<1>>
        /\ ~Stored(1)
        /\ next_id = 2
        /\ queue_order = <<2>>
        /\ queue_items[2].status = "queued"
        /\ uid = 2
        /\ upc = "woken"
        /\ ~queue_stop_event

\* C29: jobs are retained.  A stored id leaves queue_items only in a step
\* that empties the store and the queue together, taken by a thread that
\* holds the lock and changing nothing else: the reset.  Every other step
\* keeps every stored id stored, whatever its status.
C29_JobsRetainedUntilReset ==
    [][\/ \A j \in DOMAIN queue_items : j \in DOMAIN queue_items'
       \/ /\ DOMAIN queue_items' = {}
          /\ queue_order' = <<>>
          /\ lock_owner = NoThread
          /\ UNCHANGED <<next_id, lifeVars, wpc, wcur, stopVars, calls, lock_owner>>]_vars

C29_Witness ==
    /\ DOMAIN queue_items = {}
    /\ queue_order = <<>>
    /\ next_id = MaxJobs
    /\ calls = <<1, 2>>
    /\ \E w \in Workers : wpc[w] = "call" /\ wcur[w] = 2

MissingTaskId == Exc("RuntimeError", "Missing task_id in response")

\* The response carries a non-empty string task_id, at the top level or
\* under `data`.
CarriesTaskId(r) ==
    \/ r.task_id.kind = "string"
    \/ r.data.kind = "dict" /\ r.data.task_id.kind = "string"

\* C30 as stated: submit_task returns the task id when the response
\* carries a non-empty string task_id at the top level or under `data`, and
\* raises in every other case, with no poll or fetch issued.  Refuted: a
\* response with a top-level task_id beside a non-empty `data` that has
\* none makes submit_task raise.
C30_SubmitAcceptsBothShapes ==
    \A w \in Workers :
        xlog[w] # <<>> =>
            IF CarriesTaskId(sresp)
            THEN /\ Len(xlog[w][1]) = 2
                 /\ [kind |-> "string", val |-> xlog[w][1][2]]
                        \in {sresp.task_id, sresp.data.task_id}
            ELSE /\ xlog[w] = <<<<"submit">>>>
                 /\ xexc[w] = MissingTaskId

\* C30, amended: the payload is the value under `data` when that value is
\* a non-empty dict or list, and the response itself when `data` is
\* missing, null or empty.  submit_task returns the payload's task_id when
\* the payload is a dict whose task_id is a non-empty string; in every
\* other case it raises, the submit is the only request of the call (no
\* poll, no fetch) and the call has ended.
C30_SubmitUsesPayload ==
    \A w \in Workers :
        xlog[w] # <<>> =>
            /\ (sresp.data.kind = "dict" /\ sresp.data.task_id.kind = "string") =>
                   /\ xlog[w][1] = <<"submit", sresp.data.task_id.val>>
                   /\ \A i \in 1..Len(PollRequests(xlog[w])) :
                          PollRequests(xlog[w])[i][2] = sresp.data.task_id.val
            /\ (sresp.data.kind \in {"absent", "empty_dict", "empty_list"}
                   /\ sresp.task_id.kind = "string") =>
                   /\ xlog[w][1] = <<"submit", sresp.task_id.val>>
                   /\ \A i \in 1..Len(PollRequests(xlog[w])) :
                          PollRequests(xlog[w])[i][2] = sresp.task_id.val
            /\ (\/ sresp.data.kind = "list"
                \/ sresp.data.kind = "dict" /\ sresp.data.task_id.kind # "string"
                \/ sresp.data.kind \in {"absent", "empty_dict", "empty_list"}
                      /\ sresp.task_id.kind # "string") =>
                   /\ xlog[w] = <<<<"submit">>>>
                   /\ xexc[w] = MissingTaskId
                   /\ xpc[w] = "none"
                   /\ wpc[w] # "call"

C30_Witness ==
    \E w \in Workers :
        /\ sresp.task_id.kind = "string"
        /\ sresp.data.kind = "dict"
        /\ sresp.data.task_id.kind = "absent"
        /\ xlog[w] = <<<<"submit">>>>
        /\ xexc[w] = MissingTaskId
        /\ wpc[w] = "loop"
        /\ queue_items[1].status = "failed"

\* The thread has run extract_file_path on the record of the fixed response.
HasExtracted(w) ==
    /\ wpc[w] # "unstarted"
    /\ PollOnce(presp).ret = "done"
    /\ xpc[w] \in {"fetch", "none"}

\* C31: extract_file_path returns, for a result that decodes to a list, the
\* `file` of the first element that is an object with a non-empty string
\* `file`, and for a result that decodes to an object its non-empty string
\* `file`, and that is the path fetched; it raises when the result is not
\* a string (missing result), when it decodes to a list without a
\* candidate, when it decodes to another value without a path, and when
\* it does not decode at all, and then the call has ended and no file is
\* fetched.
C31_ExtractFirstValidPath ==
    \A w \in Workers :
        HasExtracted(w) =>
            IF CandidatePath(PollItem(presp).result) # NoPath
            THEN /\ xpath[w] = CandidatePath(PollItem(presp).result)
                 /\ xpc[w] = "fetch" => xexc[w] = NoExc
                 /\ \A i \in 1..Len(Fetches(xlog[w])) :
                        Fetches(xlog[w])[i][2] = CandidatePath(PollItem(presp).result)
            ELSE /\ xpath[w] = NoPath
                 /\ xpc[w] = "none"
                 /\ wpc[w] \in {"raised", "loop"}
                 /\ xexc[w] \in ExtractErrors
                 /\ Fetches(xlog[w]) = <<>>
                 /\ PollItem(presp).result.kind \in {"absent", "number"} =>
                        xexc[w] = Exc("RuntimeError", "Missing result JSON")
                 /\ (PollItem(presp).result.kind = "string"
                       /\ PollItem(presp).result.parsed.kind = "list") =>
                        xexc[w] = Exc("RuntimeError", "No valid file path in result list")
                 /\ (PollItem(presp).result.kind = "string"
                       /\ PollItem(presp).result.parsed.kind # "list") =>
                        xexc[w] = Exc("RuntimeError", "Missing file path in result")
                 /\ PollItem(presp).result.kind \in {"malformed", "deep", "bigint"} =>
                        xexc[w].msg = "transport detail"

C31_Witness ==
    \E w \in Workers :
        /\ wpc[w] = "else"
        /\ PollItem(presp).result.kind = "string"
        /\ PollItem(presp).result.parsed.kind = "list"
        /\ Len(PollItem(presp).result.parsed.items) = 2
        /\ PollItem(presp).result.parsed.items[1].kind = "nondict"
        /\ PollItem(presp).result.parsed.items[2].file.kind = "string"
        /\ xpath[w] = PollItem(presp).result.parsed.items[2].file.val

\* The response has no task record under `data`: the key is missing, null
\* or empty, or its value is neither a list nor an object.
NoEnvelope(response) == response.data.kind \notin {"list", "dict"}

\* The record poll_until_complete looks at carries no status.
LacksStatus(response) ==
    \/ NoEnvelope(response)
    \/ PollItem(response).kind = "dict" /\ PollItem(response).status.kind = "absent"

\* The call of this thread has ended.
CallEnded(w) == wpc[w] \in {"else", "raised", "loop"}

\* C37: poll_until_complete reads the status only from the object under the
\* response's `data` key.  A response without that envelope, or whose
\* object has no status, is pending whatever its top-level status: each
\* such response uses one attempt, nothing is raised before the attempts
\* are used up, and the job fails with the polling timeout after exactly
\* MAX_POLL_ATTEMPTS requests.  A status 1 or 2 under `data` ends the loop
\* at the first response, whatever the top-level status.
C37_StatusOnlyFromData ==
    \A w \in Workers :
        wpc[w] # "unstarted" =>
            /\ LacksStatus(presp) =>
                   /\ xexc[w] \in {NoExc, PollTimedOut}
                   /\ xpc[w] \notin {"extract", "fetch"}
                   /\ Len(PollRequests(xlog[w])) <= MAX_POLL_ATTEMPTS
                   /\ CallEnded(w) =>
                          /\ wpc[w] # "else"
                          /\ xexc[w] = PollTimedOut
                          /\ Len(PollRequests(xlog[w])) = MAX_POLL_ATTEMPTS
                          /\ Len(Sleeps(xlog[w])) = MAX_POLL_ATTEMPTS
                   /\ wpc[w] = "loop" => queue_items[1].status = "failed"
            /\ (~NoEnvelope(presp) /\ PollItem(presp).kind = "dict"
                  /\ PollItem(presp).status = [kind |-> "int", val |-> 2]) =>
                   /\ Len(PollRequests(xlog[w])) <= 1
                   /\ CallEnded(w) => xexc[w] = TaskFailed
            /\ (~NoEnvelope(presp) /\ PollItem(presp).kind = "dict"
                  /\ PollItem(presp).status = [kind |-> "int", val |-> 1]) =>
                   /\ Len(PollRequests(xlog[w])) <= 1
                   /\ xexc[w] \notin {TaskFailed, PollTimedOut}

C37_Witness ==
    \E w \in Workers :
        /\ presp.status = [kind |-> "int", val |-> 2]
        /\ presp.data.kind = "absent"
        /\ wpc[w] = "loop"
        /\ xexc[w] = PollTimedOut
        /\ Len(PollRequests(xlog[w])) = MAX_POLL_ATTEMPTS
        /\ queue_items[1].status = "failed"

\* stop_queue_worker has returned and ensure_queue_worker_running has not
\* been called since (or no worker was ever started): no stop is in
\* progress and the module holds no handle, which only stop drops and
\* every call of ensure sets.
Stopped == spc = "idle" /\ queue_worker_thread = NoThread

\* C32: after stop_queue_worker has returned, and until
\* ensure_queue_worker_running is next called, no job goes from queued to
\* generating, also when the join timed out on a busy worker and when jobs
\* are enqueued in the meantime: such a step neither dequeues nor starts an
\* external call for a job not yet generating.
C32_NoDequeueAfterStop ==
    [][Stopped =>
             /\ \A j \in DOMAIN queue_items :
                    (queue_items[j].status = "queued" /\ j \in DOMAIN queue_items') =>
                        queue_items'[j].status = "queued"
             /\ \/ queue_order' = queue_order
                \/ queue_order' = Append(queue_order, next_id + 1)
                \/ queue_order' = <<>> /\ DOMAIN queue_items' = {}]_vars

\* The step in which the wait of the synchronous facade returns.
WaitReturnStep == gpc = "wait" /\ gpc' = "done"

\* C33: if the job's record is no longer in the store when
\* wait_for_terminal_status inspects it (a reset has removed it), the wait
\* returns None at that inspection, without waiting for the deadline, and
\* generate_audio_for_request raises AudioGenerationTimeoutError although
\* its deadline has not passed.
C33_RemovedJobTimesOutEarly ==
    /\ [][(WaitReturnStep /\ ~Stored(gid)) => gout'.kind = "timeout"]_vars
    /\ []((gpc = "wait" /\ ~Stored(gid)) =>
              /\ WaitForTerminalStatus(gid, gexpired).ret = "none"
              /\ CanAcquire(NoThread) => ENABLED GenWaitReturns)
    /\ []((gpc = "done" /\ gout.kind = "timeout" /\ ~gexpired) => ~Stored(gid))

C33_Witness ==
    /\ gpc = "done"
    /\ gout.kind = "timeout"
    /\ ~gexpired
    /\ ~Stored(gid)
    /\ gid # NoJob

\* C34: a terminal status takes precedence over the deadline.  The wait
\* returns None for a job that is in the store only when the job is queued
\* or generating at that inspection (and the deadline has passed); a job
\* found completed or failed is returned as such, and the facade answers
\* with its bytes or its failure, also when the deadline has passed.
C34_TerminalBeatsDeadline ==
    /\ [][(WaitReturnStep /\ Stored(gid)) =>
             /\ gout'.kind = "timeout" =>
                    (queue_items[gid].status \in {"queued", "generating"} /\ gexpired)
             /\ queue_items[gid].status = "completed" =>
                    (gout'.kind = "bytes" /\ gout'.wav = queue_items[gid].wav_bytes)
             /\ queue_items[gid].status = "failed" => gout'.kind = "failed"]_vars
    /\ []((gpc = "wait" /\ gexpired /\ Stored(gid) /\ IsTerminal(queue_items[gid].status)) =>
              WaitForTerminalStatus(gid, gexpired) = [ret |-> "item", item |-> queue_items[gid]])

C34_Witness ==
    /\ gpc = "done"
    /\ gexpired
    /\ gout.kind = "bytes"
    /\ Stored(gid)
    /\ gout.wav = queue_items[gid].wav_bytes

\* C36: generate_audio_for_request always terminates.  With its finite
\* deadline it comes to an end, and the end is the bytes, the timeout or
\* the failure, also when no worker is running, when the worker has been
\* stopped, and when the external call in flight never returns.
C36_GenerateTerminates ==
    /\ (gpc \in {"ensure", "wait"}) ~> (gpc \in {"enqueue", "done"})
    /\ [](gpc = "done" => gout.kind \in {"bytes", "timeout", "failed"})

\* The stored jobs whose record this step changes.
ChangedJobs ==
    {j \in DOMAIN queue_items \cap DOMAIN queue_items' : queue_items'[j] # queue_items[j]}

\* C38: outcomes are never attributed to the wrong job.  A job becomes
\* completed only in the step of the thread whose call was made for that
\* job, and its wav_bytes are then the bytes that call returned; a job
\* becomes failed only in the step of the thread whose call for that job
\* raised; and no step of a worker changes the record of more than one job.
C38_OutcomeOfOwnCall ==
    /\ [][/\ Cardinality(ChangedJobs) <= 1
          /\ \A j \in ChangedJobs :
                 /\ queue_items'[j].status = "completed" =>
                        /\ queue_items'[j].wav_bytes = WavOf(j)
                        /\ \E w \in Workers :
                               wcur[w] = j /\ wpc[w] = "else" /\ wpc'[w] = "loop"
                 /\ queue_items'[j].status = "failed" =>
                        /\ queue_items'[j].wav_bytes = NoWav
                        /\ \E w \in Workers :
                               wcur[w] = j /\ wpc[w] = "raised" /\ wpc'[w] = "loop"]_vars
    /\ [](\A j \in DOMAIN queue_items :
             /\ queue_items[j].status = "completed" => queue_items[j].wav_bytes = WavOf(j)
             /\ IsTerminal(queue_items[j].status) =>
                    \E i \in 1..Len(calls) : calls[i] = j)

C38_Witness ==
    \E w, v \in Workers :
        /\ w # v
        /\ wpc[w] = "loop"
        /\ wpc[v] = "raised"
        /\ calls = <<1, 2>>
        /\ wcur[v] = 2
        /\ Stored(1) /\ Stored(2)
        /\ queue_items[1] = GenerationQueueItem("completed", WavOf(1), NoError)
        /\ queue_items[2].status = "generating"

\* C39: the worker never pops from an empty queue.  A worker thread leaves
\* the top of its loop under the lock: either it has seen the stop flag and
\* ends, or it has seen the flag clear and the queue not empty and holds
\* the lock until it has popped; while it holds the lock no step of
\* another thread or of a reset changes the queue, so the pop takes the
\* head of a queue that is not empty, and a thread ends only by seeing the
\* stop flag, never by an IndexError.
C39_NoPopFromEmptyQueue ==
    /\ [][\A w \in Workers :
             /\ (wpc[w] = "loop" /\ wpc'[w] # "loop") =>
                    \/ wpc'[w] = "dead" /\ queue_stop_event
                    \/ /\ wpc'[w] = "pop"
                       /\ CanAcquire(w)
                       /\ lock_owner' = w
                       /\ queue_order # <<>>
                       /\ queue_order' = queue_order
             /\ (wpc[w] = "pop" /\ wpc'[w] = "pop") =>
                    (queue_order' = queue_order /\ queue_items' = queue_items)
             /\ (wpc[w] = "pop" /\ wpc'[w] # "pop") =>
                    /\ lock_owner = w
                    /\ queue_order # <<>>
                    /\ queue_order' = Tail(queue_order)
                    /\ wpc'[w] = "marked"
                    /\ wcur'[w] = Head(queue_order)
             /\ (wpc'[w] = "dead" /\ wpc[w] # "dead") =>
                    (wpc[w] = "loop" /\ queue_stop_event)]_vars
    /\ [](\A w \in Workers :
             /\ (wpc[w] = "loop" /\ queue_order = <<>>) => ~ENABLED WorkerEnter(w)
             /\ wpc[w] = "pop" => (lock_owner = w /\ queue_order # <<>>))

C39_Witness ==
    \E w, v \in Workers :
        /\ w # v
        /\ wpc[w] = "marked"
        /\ wpc[v] = "loop"
        /\ queue_order = <<>>
        /\ ~queue_stop_event

\* The waiter's job is terminal or no longer stored.
WaitIsOver == ~Stored(uid) \/ IsTerminal(queue_items[uid].status)

\* C35: no wakeup is lost.  Every step that changes the status of a job or
\* removes a job wakes a thread asleep in wait_for_terminal_status; a
\* thread is asleep there only while its job is stored and not terminal;
\* so a caller waiting without a deadline returns once its job has become
\* terminal or has been removed.
C35_NoLostWakeup ==
    /\ [][(\E j \in DOMAIN queue_items :
               \/ j \notin DOMAIN queue_items'
               \/ queue_items'[j].status # queue_items[j].status)
             => (upc = "asleep" => upc' = "woken")]_vars
    /\ [](upc = "asleep" => ~WaitIsOver)
    /\ ((upc \in {"inspect", "asleep", "woken"}) /\ WaitIsOver) ~> (upc = "done")

C35_Witness ==
    /\ upc = "woken"
    /\ Stored(uid)
    /\ queue_items[uid].status = "completed"

====
